---- MODULE Spec2Model ----
(***************************************************************************)
(* State-machine model of the NYC taxi dashboard: the corridor key         *)
(* helpers (corridors.js, state.js), the OD flow view (odmap.js), the      *)
(* hotspot view (hotmap.js), the cluster panel (clusters.js) and the       *)
(* wiring of the UI controls (wiring.js).                                  *)
(*                                                                         *)
(* JavaScript strings are sequences of one-character strings.  "~" stands  *)
(* for the separator U+2194, "E" for a precomposed accented letter         *)
(* (U+00E9) and <<"e", "'">> for its canonical decomposition (U+0065       *)
(* U+0301); "U"/"u" are one letter in upper and lower case.                *)
(***************************************************************************)
EXTENDS Integers, Sequences, FiniteSets, TLC

VARIABLES
    keyIn,      \* corridor key probe: the two labels "A sep B" and "B sep A"
    keyOut,     \* corridor key probe: their keys, impl "none" before the call
    aggIn,      \* aggregation probe: flow rows, primary zone and hour
    aggOut,     \* aggregation probe: pairsAll of renderODForPrimary
    ui,         \* the dashboard: the shared script state and the DOM state read back
    calls,      \* the notifications the latest handler invoked, in order
    lastEvent,  \* the latest handler, its target and the selection it found
    hover,      \* currentHoverId and the zone highlightBoth has styled the maps for
    pureIn,     \* data-preparation probes: the function applied and its input
    pureOut     \* data-preparation probes: its result, fn "none" before the call

keyVars == <<keyIn, keyOut>>
aggVars == <<aggIn, aggOut>>
pureVars == <<pureIn, pureOut>>
probeVars == <<keyIn, keyOut, aggIn, aggOut, pureIn, pureOut>>
uiVars == <<ui, calls, lastEvent, hover>>
vars == <<keyIn, keyOut, aggIn, aggOut, ui, calls, lastEvent, hover, pureIn, pureOut>>

\* ------------------------------------------------------------------------
\* Bounds
\* ------------------------------------------------------------------------
MaxNameLen == 2

\* The hour slider runs from 0 to MaxHour.
MaxHour == 1

\* ------------------------------------------------------------------------
\* Strings
\* ------------------------------------------------------------------------
\* JavaScript null where a string is expected ("null" is no character).
NULL == <<"null">>

SEP == "~"

\* " " is the only white space of the model.
RECURSIVE TrimLeft(_)
TrimLeft(s) ==
    IF s # <<>> /\ Head(s) = " " THEN TrimLeft(Tail(s)) ELSE s

RECURSIVE TrimRight(_)
TrimRight(s) ==
    IF s # <<>> /\ s[Len(s)] = " " THEN TrimRight(SubSeq(s, 1, Len(s) - 1)) ELSE s

\* String.prototype.trim
Trim(s) == TrimRight(TrimLeft(s))

\* String.prototype.split with a one-character separator: "a~b" gives
\* <<"a", "b">>, a string without the separator gives one part.
RECURSIVE SplitFrom(_, _, _)
SplitFrom(s, sep, cur) ==
    IF s = <<>> THEN <<cur>>
    ELSE IF Head(s) = sep THEN <<cur>> \o SplitFrom(Tail(s), sep, <<>>)
    ELSE SplitFrom(Tail(s), sep, Append(cur, Head(s)))

Split(s, sep) == SplitFrom(s, sep, <<>>)

\* String.prototype.toLowerCase
\* "E" stands for U+00E9, which is its own lower case.
UpperLetters == <<"A", "B", "C", "D", "F", "G", "H", "I", "K", "L", "N", "O", "P", "Q", "R", "S", "T", "V", "W", "X", "Y", "Z">>
LowerLetters == <<"a", "b", "c", "d", "f", "g", "h", "i", "k", "l", "n", "o", "p", "q", "r", "s", "t", "v", "w", "x", "y", "z">>
LowerChar(c) ==
    IF c = "U" THEN "u" ELSE IF c = "M" THEN "m" ELSE IF c = "J" THEN "j"
    ELSE IF \E i \in 1..Len(UpperLetters) : UpperLetters[i] = c
    THEN LowerLetters[CHOOSE i \in 1..Len(UpperLetters) : UpperLetters[i] = c]
    ELSE c
ToLower(s) == [i \in 1..Len(s) |-> LowerChar(s[i])]

\* String.prototype.includes
Includes(s, sub) ==
    \E i \in 1..(Len(s) - Len(sub) + 1) : SubSeq(s, i, i + Len(sub) - 1) = sub

\* Canonical decomposition: the precomposed letter becomes base + mark.
RECURSIVE NFD(_)
NFD(s) ==
    IF s = <<>> THEN <<>>
    ELSE (IF Head(s) = "E" THEN <<"e", "'">> ELSE <<Head(s)>>) \o NFD(Tail(s))

\* Collation order of the characters (white space first, then letters).
CharRank(c) ==
    CASE c = " " -> 0
      [] c = "'" -> 1
      [] c = "a" -> 2
      [] c = "e" -> 3
      [] c = "j" -> 4
      [] c = "J" -> 5
      [] c = "m" -> 6
      [] c = "M" -> 7
      [] c = "u" -> 8
      [] c = "U" -> 9
      [] OTHER   -> 10

RECURSIVE CompareRanks(_, _)
CompareRanks(a, b) ==
    IF a = <<>> /\ b = <<>> THEN 0
    ELSE IF a = <<>> THEN -1
    ELSE IF b = <<>> THEN 1
    ELSE IF CharRank(Head(a)) < CharRank(Head(b)) THEN -1
    ELSE IF CharRank(Head(a)) > CharRank(Head(b)) THEN 1
    ELSE CompareRanks(Tail(a), Tail(b))

\* String.prototype.localeCompare: a total preorder on strings that returns
\* 0 for canonically equivalent strings (ECMA-262, String.prototype.
\* localeCompare), so it compares the canonical decompositions.
LocaleCompare(a, b) == CompareRanks(NFD(a), NFD(b))

\* [l, r].sort((a, b) => a.localeCompare(b)): Array.prototype.sort is stable,
\* the two elements swap only when the comparator is positive.
SortPair(l, r) == IF LocaleCompare(l, r) > 0 THEN <<r, l>> ELSE <<l, r>>

\* ------------------------------------------------------------------------
\* Corridor keys
\* ------------------------------------------------------------------------
\* corridors.js: the key the OD view and the corridor search use.
canonicalCorridorKeyFromLabel(label) ==
    IF label = NULL \/ label = <<>> THEN NULL
    ELSE LET parts == Split(label, SEP)
         IN  IF Len(parts) # 2 THEN Trim(label)
             ELSE LET sorted == SortPair(Trim(parts[1]), Trim(parts[2]))
                  IN  sorted[1] \o <<" ", SEP, " ">> \o sorted[2]

\* state.js: App.utils.canonicalCorridorKeyFromLabel.
AppCanonicalCorridorKeyFromLabel(label) ==
    IF label = NULL \/ label = <<>> THEN NULL
    ELSE LET parts == Split(label, SEP)
         IN  IF Len(parts) # 2 THEN NULL
             ELSE LET sorted == SortPair(Trim(parts[1]), Trim(parts[2]))
                  IN  sorted[1] \o <<SEP>> \o sorted[2]

\* ------------------------------------------------------------------------
\* Sequences
\* ------------------------------------------------------------------------
\* The distinct elements of seq, in order of first occurrence (the key order
\* of a JavaScript Map filled by iterating seq).
RECURSIVE Distinct(_)
Distinct(seq) ==
    IF seq = <<>> THEN <<>>
    ELSE LET d == Distinct(SubSeq(seq, 1, Len(seq) - 1))
             x == seq[Len(seq)]
         IN  IF \E i \in 1..Len(d) : d[i] = x THEN d ELSE Append(d, x)

Range(seq) == {seq[i] : i \in 1..Len(seq)}

RECURSIVE Sum(_)
Sum(nums) == IF nums = <<>> THEN 0 ELSE Head(nums) + Sum(Tail(nums))

\* Insert index i into the sorted index sequence behind every index whose
\* key is smaller or equal.
RECURSIVE InsertIndex(_, _, _)
InsertIndex(sorted, i, keys) ==
    IF sorted = <<>> THEN <<i>>
    ELSE IF keys[i] < keys[Head(sorted)] THEN <<i>> \o sorted
    ELSE <<Head(sorted)>> \o InsertIndex(Tail(sorted), i, keys)

RECURSIVE SortedIndices(_, _)
SortedIndices(keys, n) ==
    IF n = 0 THEN <<>> ELSE InsertIndex(SortedIndices(keys, n - 1), n, keys)

\* Array.prototype.sort((a, b) => key(a) - key(b)), which is stable: keys[i]
\* is the key of seq[i].
SortAscending(seq, keys) ==
    LET perm == SortedIndices(keys, Len(seq))
    IN  [i \in 1..Len(seq) |-> seq[perm[i]]]

\* Array.prototype.sort((a, b) => key(b) - key(a))
SortDescending(seq, keys) ==
    SortAscending(seq, [i \in 1..Len(seq) |-> 0 - keys[i]])

\* ------------------------------------------------------------------------
\* Data loaded at boot
\* ------------------------------------------------------------------------
\* null where a zone id is expected (zone ids start at 1).
NoZone == 0

\* null where a flow-cluster id is expected, after the flows cleanup.
NoCluster == -1

\* window.zones.features in file order, with the borough of idTo.
Zones == {1, 2, 3}
ZoneOrder == <<1, 2, 3>>
getZoneBoroughById(id) ==
    IF id \in {1, 3} THEN "Manhattan" ELSE IF id = 2 THEN "Queens" ELSE "Unknown"

\* window.semantics (cluster_semantics.json): flow-cluster id -> label.
\* 3 and 4 name the same corridor in both directions, 5 is an intra-area
\* corridor, 6 has no entry.
SemanticsIds == {3, 4, 5}
SemanticsLabel(cid) ==
    CASE cid = 3 -> <<"M", " ", SEP, " ", "J">>
      [] cid = 4 -> <<"J", " ", SEP, " ", "M">>
      [] cid = 5 -> <<"U", " ", SEP, " ", "u">>
      [] OTHER   -> NULL

FlowRow(o, d, h, n, c) ==
    [origin_zone |-> o, destination_zone |-> d, time_bin |-> h,
     trip_count |-> n, flow_cluster_id |-> c]

\* window.flows after the cleanup, in file order.
Flows ==
    << FlowRow(1, 2, 0, 50, 3),
       FlowRow(2, 1, 0, 30, 3),
       FlowRow(1, 3, 0, 20, 6),
       FlowRow(3, 1, 0, 5, NoCluster),
       FlowRow(2, 3, 1, 10, 4),
       FlowRow(3, 2, 1, 40, 5) >>

Hours == 0..MaxHour

\* The value of the borough filter for "all boroughs".
AllBoroughs == "__all__"
BoroughOptions == {AllBoroughs, "Manhattan"}

\* The value of the corridor dropdown for "all corridors".
AllCorridors == <<"_", "_", "a", "l", "l", "_", "_">>

\* JavaScript truthiness of a string or null.
Truthy(str) == str # NULL /\ str # <<>>

\* window.st (hotmap.js stByKey): the rows LocationID|hour with their
\* cluster_id; -1 is the noise cluster.
StRows == {<<1, 0>>, <<2, 0>>, <<1, 1>>, <<3, 1>>}
StClusterId(z, h) ==
    CASE <<z, h>> = <<1, 0>> -> 0
      [] <<z, h>> = <<2, 0>> -> -1
      [] <<z, h>> = <<1, 1>> -> 2
      [] <<z, h>> = <<3, 1>> -> 0
      [] OTHER -> -1

\* null where a time-cluster id is expected.
NoTimeCluster == -2

\* clusters.js clusterTopList: the areas of the cluster table.
clusterTopList ==
    << [areaKey |-> "Airport", clusters |-> {0, 2}, topClusterId |-> 0] >>

\* ------------------------------------------------------------------------
\* clusters.js: readableClusterLabel
\* ------------------------------------------------------------------------
\* `Cluster ${clusterId}`
ClusterIdText(cid) ==
    <<"C", "#">> \o (CASE cid = 3 -> <<"3">> [] cid = 4 -> <<"4">> [] cid = 5 -> <<"5">>
                       [] cid = 6 -> <<"6">> [] OTHER -> <<"?">>)

readableClusterLabel(clusterId) ==
    IF clusterId \notin SemanticsIds THEN ClusterIdText(clusterId)
    ELSE LET rawLabel == SemanticsLabel(clusterId)
             parts == Split(rawLabel, SEP)
         IN  IF rawLabel = <<>> THEN ClusterIdText(clusterId)
             ELSE IF /\ Len(parts) = 2
                     /\ Trim(parts[1]) # <<>>
                     /\ Trim(parts[2]) # <<>>
                     /\ ToLower(Trim(parts[1])) = ToLower(Trim(parts[2]))
                  THEN <<"I", "n", "t", "r", "a", " ">> \o Trim(parts[1])
                  ELSE rawLabel

\* ------------------------------------------------------------------------
\* odmap.js: renderODForPrimary, the aggregation by partner
\* ------------------------------------------------------------------------
OtherOf(row, primaryId) ==
    IF row.origin_zone = primaryId THEN row.destination_zone ELSE row.origin_zone

\* Relevant without the test of the hour.
RelevantAnyHour(rows, primaryId, h) ==
    SelectSeq(rows, LAMBDA d : d.origin_zone = primaryId \/ d.destination_zone = primaryId)

\* flows.filter(...) : the rows of the hour that touch the primary.
Relevant(rows, primaryId, h) ==
    SelectSeq(rows, LAMBDA d : /\ d.time_bin = h
                               /\ (d.origin_zone = primaryId \/ d.destination_zone = primaryId))

\* The sum of trip_count over rows.
Trips(rows) == Sum([i \in 1..Len(rows) |-> rows[i].trip_count])

\* ent.clusterCounts as entries [cid, count] in insertion order.
ClusterEntries(rowsOfPair) ==
    LET withCid == SelectSeq(rowsOfPair, LAMBDA r : r.flow_cluster_id # NoCluster)
        cids == Distinct([i \in 1..Len(withCid) |-> withCid[i].flow_cluster_id])
    IN  [i \in 1..Len(cids) |->
            [cid |-> cids[i],
             count |-> Trips(SelectSeq(withCid, LAMBDA r : r.flow_cluster_id = cids[i]))]]

\* clusterEntries.sort(descending by count)[0][0], null without entries.
DominantCid(rowsOfPair) ==
    LET unsorted == ClusterEntries(rowsOfPair)
        entries == SortDescending(unsorted, [i \in 1..Len(unsorted) |-> unsorted[i].count])
    IN  IF entries = <<>> THEN NoCluster ELSE entries[1].cid

\* byOther.values() after the forEach that sets total and corridorClusterId:
\* one entry per other endpoint, in order of first occurrence.
PairsAll(rows, primaryId, h) ==
    LET relevant == Relevant(rows, primaryId, h)
        others == Distinct([i \in 1..Len(relevant) |-> OtherOf(relevant[i], primaryId)])
        rowsOf(o) == SelectSeq(relevant, LAMBDA r : OtherOf(r, primaryId) = o)
        outOf(o) == Trips(SelectSeq(rowsOf(o), LAMBDA r : r.origin_zone = primaryId))
        inOf(o) == Trips(SelectSeq(rowsOf(o), LAMBDA r : r.origin_zone # primaryId))
    IN  [i \in 1..Len(others) |->
            [otherId |-> others[i],
             outCount |-> outOf(others[i]),
             inCount |-> inOf(others[i]),
             total |-> outOf(others[i]) + inOf(others[i]),
             corridorClusterId |-> DominantCid(rowsOf(others[i]))]]

\* ------------------------------------------------------------------------
\* The dashboard state
\* ------------------------------------------------------------------------
\* odEdgesG without children.
NoEdges == [kind |-> "none", key |-> NULL, arcs |-> {}]

\* The state after wiring.js has initialised the maps and painted once.
UiBoot ==
    [ hour |-> 0,
      boroFilter |-> AllBoroughs,
      \* odmap.js shared state
      selectedPrimary |-> NoZone,
      selectedSecondary |-> NoZone,
      isAutoZooming |-> FALSE,
      corridorMode |-> FALSE,
      activeCorridorId |-> NULL,
      availableCorridors |-> <<>>,
      corridorKeyToClusterIds |-> <<>>,
      lastCorridorOverviewKey |-> NULL,
      corridorOverviewZoneIds |-> {},
      autoZoomedPrimaries |-> {},
      \* the zoom transition scheduled on each svg: none, pending, running
      hotTransition |-> "none",
      odTransition |-> "none",
      \* DOM of the OD panel
      odEdges |-> NoEdges,
      odSummary |-> "initial",
      odNodePointer |-> [z \in Zones |-> "auto"],
      corridorFilterValue |-> <<>>,
      \* DOM of the hotspot panel
      hotPointer |-> [z \in Zones |-> "auto"],
      hotStroke |-> [z \in Zones |-> "#000"],
      \* cluster tab
      clusterTimeViewActive |-> FALSE,
      activeTimeClusterId |-> NoTimeCluster,
      clusterDetail |-> "none",
      \* an exception left the latest handler
      jsError |-> FALSE ]

NoEvent == [name |-> "boot", branch |-> "none", primaryBefore |-> NoZone]

\* ------------------------------------------------------------------------
\* d3-transition on the two svg elements
\* ------------------------------------------------------------------------
\* selection.interrupt(): a running transition gets its "interrupt" event,
\* whose listener clears the flag; a transition that has not started yet is
\* cancelled without an "interrupt" event.
interrupt(S, svg) ==
    IF svg = "hot"
    THEN [S EXCEPT !.hotTransition = "none",
                   !.isAutoZooming = IF S.hotTransition = "running" THEN FALSE ELSE @]
    ELSE [S EXCEPT !.odTransition = "none",
                   !.isAutoZooming = IF S.odTransition = "running" THEN FALSE ELSE @]

\* svg.interrupt().transition()....on("end", ...).on("interrupt", ...)
startTransition(S, svg) ==
    LET I == interrupt(S, svg)
    IN  IF svg = "hot" THEN [I EXCEPT !.hotTransition = "pending"]
        ELSE [I EXCEPT !.odTransition = "pending"]

\* ------------------------------------------------------------------------
\* odmap.js
\* ------------------------------------------------------------------------
zoomToBorough(S, b) ==
    IF b = AllBoroughs
    THEN startTransition(startTransition([S EXCEPT !.isAutoZooming = TRUE], "hot"), "od")
    ELSE IF {z \in Zones : getZoneBoroughById(z) = b} = {} THEN S
    ELSE LET H == startTransition([S EXCEPT !.isAutoZooming = TRUE], "hot")
         IN  startTransition([H EXCEPT !.isAutoZooming = TRUE], "od")

\* hotmap.js highlightZonesForTimeCluster(clusterId): the stroke of every
\* hotspot zone.
highlightZonesForTimeCluster(S, clusterId) ==
    [S EXCEPT !.hotStroke = [z \in Zones |->
        IF <<z, S.hour>> \in StRows /\ StClusterId(z, S.hour) = clusterId
        THEN "#7e22ce" ELSE "#cbd5e1"]]

\* hotmap.js repaintHot: the stroke of a zone is the noise colour when its
\* row of the hour has cluster_id -1; the highlight of the active time
\* cluster is re-applied at the end.
repaintHotStroke(S) ==
    [S EXCEPT !.hotStroke = [z \in Zones |->
        IF <<z, S.hour>> \in StRows /\ StClusterId(z, S.hour) = -1
        THEN "#dc2626" ELSE "#000"]]

repaintHot(S) ==
    IF S.clusterTimeViewActive /\ S.activeTimeClusterId # NoTimeCluster
    THEN highlightZonesForTimeCluster(repaintHotStroke(S), S.activeTimeClusterId)
    ELSE repaintHotStroke(S)

\* The stroke applyBoroughFilter gives the hotspot zone z.
boroughStroke(S, z) ==
    LET b == S.boroFilter
        inFilter == b = AllBoroughs \/ getZoneBoroughById(z) = b
    IN  IF S.selectedPrimary # NoZone
        THEN IF z = S.selectedPrimary THEN "#7e22ce"
             ELSE IF b # AllBoroughs /\ inFilter THEN "#7e22ce"
             ELSE "rgba(148,163,184,.6)"
        ELSE IF b = AllBoroughs THEN "#000"
        ELSE IF ~inFilter THEN "rgba(148,163,184,.6)"
        ELSE "#7e22ce"

applyBoroughFilter(S) ==
    LET b == S.boroFilter
        inCorridorOverview ==
            /\ S.corridorMode
            /\ Truthy(S.activeCorridorId)
            /\ S.corridorOverviewZoneIds # {}
        nodes ==
            IF S.selectedPrimary # NoZone THEN S.odNodePointer
            ELSE IF inCorridorOverview
            THEN [z \in Zones |-> IF z \in S.corridorOverviewZoneIds THEN "auto" ELSE "none"]
            ELSE [z \in Zones |->
                     IF b = AllBoroughs \/ getZoneBoroughById(z) = b THEN "auto" ELSE "none"]
    IN  [S EXCEPT !.odNodePointer = nodes,
                  !.hotStroke = [z \in Zones |-> boroughStroke(S, z)],
                  !.hotPointer = [z \in Zones |->
                      IF b # AllBoroughs /\ getZoneBoroughById(z) # b THEN "none" ELSE "auto"]]

\* The reset without selectedSecondary = null.
clearSelectionKeepSecondary(S) ==
    LET cleared == [S EXCEPT !.selectedPrimary = NoZone,
                             !.corridorMode = FALSE,
                             !.activeCorridorId = NULL,
                             !.availableCorridors = <<>>,
                             !.lastCorridorOverviewKey = NULL,
                             !.corridorOverviewZoneIds = {},
                             !.corridorFilterValue = <<>>,
                             !.odEdges = NoEdges,
                             !.odNodePointer = [z \in Zones |-> "auto"],
                             !.odSummary = "noZone"]
        zoomed == zoomToBorough(applyBoroughFilter(cleared), cleared.boroFilter)
    IN  [zoomed EXCEPT !.autoZoomedPrimaries = {}]

clearSelectionAndReset(S) ==
    LET cleared == [S EXCEPT !.selectedPrimary = NoZone,
                             !.selectedSecondary = NoZone,
                             !.corridorMode = FALSE,
                             !.activeCorridorId = NULL,
                             !.availableCorridors = <<>>,
                             !.lastCorridorOverviewKey = NULL,
                             !.corridorOverviewZoneIds = {},
                             !.corridorFilterValue = <<>>,
                             !.odEdges = NoEdges,
                             !.odNodePointer = [z \in Zones |-> "auto"],
                             !.odSummary = "noZone"]
        zoomed == zoomToBorough(applyBoroughFilter(cleared), cleared.boroFilter)
    IN  [zoomed EXCEPT !.autoZoomedPrimaries = {}]

adjustOdZoomToFlows(S, primaryId, shownPairs) ==
    IF shownPairs = <<>> THEN S
    ELSE startTransition([S EXCEPT !.isAutoZooming = TRUE], "od")

\* connMap.get(id).size, 0 without an entry: the zones a flow row connects
\* id with, in either direction.
connDegree(rows, id) ==
    Cardinality({r.destination_zone : r \in {x \in rows : x.origin_zone = id}}
                \cup {r.origin_zone : r \in {x \in rows : x.destination_zone = id}})

\* The registry ids in insertion order with their degrees, not sorted.
connectivityUnsorted(ids, rows) ==
    [i \in 1..Len(ids) |-> [id |-> ids[i], degree |-> connDegree(rows, ids[i])]]

\* connectivityArray: sorted by degree, descending.
connectivityArray(ids, rows) ==
    SortDescending(connectivityUnsorted(ids, rows),
                   [i \in 1..Len(ids) |-> connDegree(rows, ids[i])])

\* Math.ceil(nZones * pct / 100); the double product rounds to the same
\* integer for the registry sizes of the model.
CeilPercent(nZones, pct) == (nZones * pct + 99) \div 100

\* The cap of the entry at index idx (from 0) of connectivityArray.
capOfRank(idx, nZones) ==
    IF idx < CeilPercent(nZones, 5) THEN 50
    ELSE IF idx < CeilPercent(nZones, 10) THEN 40
    ELSE IF idx < CeilPercent(nZones, 20) THEN 30
    ELSE 20

\* zoneCapMap as a function of the registry ids.
zoneCapMapOf(ids, rows) ==
    LET arr == connectivityArray(ids, rows)
    IN  [id \in Range(ids) |->
            capOfRank((CHOOSE i \in 1..Len(arr) : arr[i].id = id) - 1, Len(arr))]

\* window.zoneCapMap of wiring.js for the zones and flows of the dashboard.
ZoneCaps == zoneCapMapOf(ZoneOrder, Range(Flows))

zoneCapMap(z) == ZoneCaps[z]

\* pairs: pairsAll restricted to the secondary, sorted ascending by total.
Pairs(pairsAll, secondary) ==
    LET kept == IF secondary # NoZone
                THEN SelectSeq(pairsAll, LAMBDA e : e.otherId = secondary)
                ELSE pairsAll
    IN  SortAscending(kept, [i \in 1..Len(kept) |-> kept[i].total])

\* The cut that keeps the head of the ascending list.
shownPairsHead(pairs, capForPrimary, secondary) ==
    IF secondary = NoZone /\ Len(pairs) > capForPrimary
    THEN SubSeq(pairs, 1, capForPrimary)
    ELSE pairs

\* pairs.slice(pairs.length - capForPrimary) when no secondary is selected
\* and pairs is longer than the cap, which is always a finite number.
shownPairsCapped(pairs, capForPrimary, secondary) ==
    IF secondary = NoZone /\ Len(pairs) > capForPrimary
    THEN SubSeq(pairs, Len(pairs) - capForPrimary + 1, Len(pairs))
    ELSE pairs

\* shownPairs: the cap keeps the largest pairs when no secondary is selected.
ShownPairs(pairs, primaryId, secondary) ==
    shownPairsCapped(pairs, zoneCapMap(primaryId), secondary)

\* corridorTotals filtered by semantics and mapped to {cluster_id,
\* total_trip, label, key}: one entry per dominant cluster, in the order the
\* partners introduce them.
RawCorridors(pairsAll) ==
    LET withCid == SelectSeq(pairsAll, LAMBDA e : e.corridorClusterId # NoCluster)
        cids == Distinct([i \in 1..Len(withCid) |-> withCid[i].corridorClusterId])
        known == SelectSeq(cids, LAMBDA c : c \in SemanticsIds)
        totalOf(c) ==
            LET mine == SelectSeq(withCid, LAMBDA e : e.corridorClusterId = c)
            IN  Sum([i \in 1..Len(mine) |-> mine[i].total])
    IN  [i \in 1..Len(known) |->
            [cluster_id |-> known[i],
             total_trip |-> totalOf(known[i]),
             label |-> readableClusterLabel(known[i]),
             key |-> canonicalCorridorKeyFromLabel(readableClusterLabel(known[i]))]]

\* c.key || c.label
GroupKey(c) == IF Truthy(c.key) THEN c.key ELSE c.label

\* grouped.values() sorted descending by total_trip.
AvailableCorridors(raw) ==
    LET keys == Distinct([i \in 1..Len(raw) |-> GroupKey(raw[i])])
        totalOf(k) ==
            LET mine == SelectSeq(raw, LAMBDA c : GroupKey(c) = k)
            IN  Sum([i \in 1..Len(mine) |-> mine[i].total_trip])
        grouped == [i \in 1..Len(keys) |-> [key |-> keys[i], total_trip |-> totalOf(keys[i])]]
    IN  SortDescending(grouped, [i \in 1..Len(grouped) |-> grouped[i].total_trip])

CorridorKeyToClusterIds(raw) ==
    [k \in {GroupKey(raw[i]) : i \in 1..Len(raw)} |->
        {raw[i].cluster_id : i \in {j \in 1..Len(raw) : GroupKey(raw[j]) = k}}]

\* displayedPairs: in corridor mode only the partners whose dominant cluster
\* is a corridor, and a corridor of the active key when one is active.
DisplayedPairs(shownPairs, raw, mode, active, keyToIds) ==
    IF ~mode THEN shownPairs
    ELSE SelectSeq(shownPairs, LAMBDA e :
            /\ e.corridorClusterId # NoCluster
            /\ e.corridorClusterId \in {raw[i].cluster_id : i \in 1..Len(raw)}
            /\ Truthy(active) =>
                   /\ active \in DOMAIN keyToIds
                   /\ e.corridorClusterId \in keyToIds[active])

ZoneEdges(primaryId, displayed) ==
    [kind |-> "zone", key |-> NULL,
     arcs |-> {[originId |-> primaryId, destId |-> displayed[i].otherId,
                total |-> displayed[i].total] : i \in 1..Len(displayed)}]

\* What renderODForPrimary derives from the flow table alone: pairsAll, the
\* corridors of the dominant clusters, availableCorridors and
\* corridorKeyToClusterIds.
DerivedFromRaw(pairsAll, raw) ==
    [pairsAll |-> pairsAll,
     raw |-> raw,
     available |-> AvailableCorridors(raw),
     keyToIds |-> CorridorKeyToClusterIds(raw)]

DerivedFromPairs(pairsAll) == DerivedFromRaw(pairsAll, RawCorridors(pairsAll))

\* The same for every primary and hour of the model.
FlowsOfPrimary ==
    [primaryId \in Zones, h \in Hours |-> DerivedFromPairs(PairsAll(Flows, primaryId, h))]

\* activeCorridorId without the reset.
ActiveCorridorKept(active, derived) == active

\* activeCorridorId after the reset of a key the primary does not have.
ActiveCorridorAfter(active, derived) ==
    IF active # NULL /\ active \notin DOMAIN derived.keyToIds THEN NULL ELSE active

\* The value the corridor dropdown is set to.
FilterValueAfter(mode, active, derived) ==
    IF derived.available = <<>> THEN <<>>
    ELSE IF mode /\ active # NULL THEN active
    ELSE AllCorridors

\* Only auto-zoom the first time the primary is rendered.
autoZoomOnce(S, primaryId, shownPairs) ==
    IF primaryId \in S.autoZoomedPrimaries THEN S
    ELSE [adjustOdZoomToFlows(S, primaryId, shownPairs)
             EXCEPT !.autoZoomedPrimaries = @ \cup {primaryId}]

\* The end of renderODForPrimary with corridorMode left as it was.
drawDisplayedKeepMode(S, derived, shownPairs, active, displayed) ==
    autoZoomOnce(
        applyBoroughFilter(
            [S EXCEPT !.availableCorridors = derived.available,
                      !.corridorKeyToClusterIds = derived.keyToIds,
                      !.activeCorridorId = active,
                      !.corridorMode = S.corridorMode,
                      !.corridorFilterValue = FilterValueAfter(S.corridorMode, active, derived),
                      !.odNodePointer = [z \in Zones |->
                          IF z = S.selectedPrimary
                             \/ \E i \in 1..Len(displayed) : displayed[i].otherId = z
                          THEN "auto" ELSE "none"],
                      !.odEdges = ZoneEdges(S.selectedPrimary, displayed),
                      !.odSummary = "zone"]),
        S.selectedPrimary, shownPairs)

\* The end of renderODForPrimary: nodes, edges, summary, borough styling and
\* the auto-zoom.
drawDisplayed(S, derived, shownPairs, active, displayed) ==
    autoZoomOnce(
        applyBoroughFilter(
            [S EXCEPT !.availableCorridors = derived.available,
                      !.corridorKeyToClusterIds = derived.keyToIds,
                      !.activeCorridorId = active,
                      !.corridorMode = derived.available # <<>>,
                      !.corridorFilterValue = FilterValueAfter(S.corridorMode, active, derived),
                      !.odNodePointer = [z \in Zones |->
                          IF z = S.selectedPrimary
                             \/ \E i \in 1..Len(displayed) : displayed[i].otherId = z
                          THEN "auto" ELSE "none"],
                      !.odEdges = ZoneEdges(S.selectedPrimary, displayed),
                      !.odSummary = "zone"]),
        S.selectedPrimary, shownPairs)

\* The middle of renderODForPrimary: the corridor state and displayedPairs.
drawShown(S, derived, shownPairs, active) ==
    drawDisplayed(S, derived, shownPairs, active,
                  DisplayedPairs(shownPairs, derived.raw, derived.available # <<>>, active,
                                 derived.keyToIds))

drawDerived(S, derived) ==
    drawShown(S, derived,
              ShownPairs(Pairs(derived.pairsAll, S.selectedSecondary),
                         S.selectedPrimary, S.selectedSecondary),
              ActiveCorridorAfter(S.activeCorridorId, derived))

renderODForPrimary(S) ==
    IF S.selectedPrimary \notin Zones THEN [S EXCEPT !.corridorOverviewZoneIds = {}]
    ELSE drawDerived([S EXCEPT !.corridorOverviewZoneIds = {}],
                     FlowsOfPrimary[S.selectedPrimary, S.hour])

\* The clusters whose semantics label collapses to the key.
CorridorClusterIds(canonicalKey) ==
    {c \in SemanticsIds : /\ Truthy(SemanticsLabel(c))
                          /\ canonicalCorridorKeyFromLabel(SemanticsLabel(c)) = canonicalKey}

\* The rows of the corridor at the hour.
CorridorRows(canonicalKey, h) ==
    SelectSeq(Flows, LAMBDA row : /\ row.time_bin = h
                                  /\ row.flow_cluster_id # NoCluster
                                  /\ row.flow_cluster_id \in CorridorClusterIds(canonicalKey))

\* byPair.values(): the total of every directed pair of the rows.
OverviewArcs(rows) ==
    {[originId |-> o, destId |-> d,
      total |-> Trips(SelectSeq(rows, LAMBDA r : r.origin_zone = o /\ r.destination_zone = d))] :
        <<o, d>> \in {<<rows[i].origin_zone, rows[i].destination_zone>> : i \in 1..Len(rows)}}

ZonesOfArcs(arcs) == {a.originId : a \in arcs} \cup {a.destId : a \in arcs}

\* renderCorridorOverview after the two guards: nodes, arcs and auto-zoom.
\* The summary is assigned through textContent of a d3 selection, which
\* changes nothing on screen.
drawOverview(S, canonicalKey, arcs) ==
    startTransition(
        [S EXCEPT !.corridorOverviewZoneIds = ZonesOfArcs(arcs),
                  !.selectedPrimary = NoZone,
                  !.selectedSecondary = NoZone,
                  !.odNodePointer = [z \in Zones |->
                      IF z \in ZonesOfArcs(arcs) THEN "auto" ELSE "none"],
                  !.odEdges = [kind |-> "overview", key |-> canonicalKey, arcs |-> arcs],
                  !.isAutoZooming = TRUE],
        "od")

renderOverviewOfKey(S, canonicalKey, relevant) ==
    IF CorridorClusterIds(canonicalKey) = {} \/ relevant = <<>>
    THEN [S EXCEPT !.corridorMode = TRUE,
                   !.activeCorridorId = canonicalKey,
                   !.lastCorridorOverviewKey = canonicalKey,
                   !.odEdges = NoEdges]
    ELSE drawOverview([S EXCEPT !.corridorMode = TRUE,
                                !.activeCorridorId = canonicalKey,
                                !.lastCorridorOverviewKey = canonicalKey],
                      canonicalKey, OverviewArcs(relevant))

renderCorridorOverview(S, corridorKey) ==
    renderOverviewOfKey(S, canonicalCorridorKeyFromLabel(corridorKey),
                        CorridorRows(canonicalCorridorKeyFromLabel(corridorKey), S.hour))

\* ------------------------------------------------------------------------
\* clusters.js: the cluster panel
\* ------------------------------------------------------------------------
\* renderClusterDetail(areaEntry) with an entry of clusterTopList.
renderClusterDetail(S, areaEntry) == [S EXCEPT !.clusterDetail = areaEntry.areaKey]

\* The datum of the active table row, else the first area; the table has
\* one row.
refreshClusterDetailForCurrent(S) == renderClusterDetail(S, clusterTopList[1])

\* ------------------------------------------------------------------------
\* hotmap.js
\* ------------------------------------------------------------------------
\* showClusterForZoneAndHour hands the numeric cluster_id of the row to
\* renderClusterDetail, which returns at once because a number has no
\* .clusters, and to highlightClusterRow, which throws a TypeError on
\* areaKey.replace.
showClusterForZoneAndHour(S, zoneId, h) ==
    IF <<zoneId, h>> \notin StRows THEN S
    ELSE [S EXCEPT !.jsError = TRUE]

\* restoreViews: repaintHot, renderODForPrimary if a primary is selected,
\* applyBoroughFilter.
restoreViews(S) ==
    applyBoroughFilter(IF S.selectedPrimary # NoZone
                       THEN renderODForPrimary(repaintHot(S))
                       ELSE repaintHot(S))

\* ------------------------------------------------------------------------
\* wiring.js
\* ------------------------------------------------------------------------
\* typeof window.selectedPrimary !== "undefined": selectedPrimary is a
\* top-level let of odmap.js, which creates no property of window.
WindowHasSelectedPrimary == FALSE

\* The calls of the hour handler, in order.
HourNotifications(S) ==
    <<"repaintHot", "paintOdNodesFromHot">>
        \o (IF WindowHasSelectedPrimary /\ S.selectedPrimary # NoZone
            THEN <<"renderODForPrimary">> ELSE <<>>)
        \o <<"applyBoroughFilter">>
        \o (IF S.clusterTimeViewActive /\ S.activeTimeClusterId # NoTimeCluster
            THEN <<"highlightZonesForTimeCluster">> ELSE <<>>)

\* ------------------------------------------------------------------------
\* Handlers
\* ------------------------------------------------------------------------
\* currentHoverId = null and no zone styled by highlightBoth.
HoverNone == [currentHoverId |-> NoZone, highlight |-> NoZone]

\* hotmap.js highlightBoth(zoneId): with an active time cluster in the
\* cluster tab only currentHoverId is set.
highlightBoth(S, zoneId) ==
    [currentHoverId |-> zoneId,
     highlight |-> IF S.clusterTimeViewActive /\ S.activeTimeClusterId # NoTimeCluster
                   THEN hover.highlight ELSE zoneId]

\* The handler leaves the dashboard in state S and the hover state in H,
\* having made the calls of log.
HandledHover(S, name, branch, log, H) ==
    /\ ui' = S
    /\ calls' = log
    /\ lastEvent' = [name |-> name, branch |-> branch, primaryBefore |-> ui.selectedPrimary]
    /\ hover' = H
    /\ UNCHANGED probeVars

\* A handler that is no hover handler: every repaint or render it calls
\* overwrites the styles highlightBoth has set.
Handled(S, name, branch, log) ==
    HandledHover(S, name, branch, log,
                 IF log = <<>> THEN hover ELSE [hover EXCEPT !.highlight = NoZone])

\* d3-zoom's mousedown listener on the svg interrupts its transition before
\* the click is dispatched; every handler starts without a pending error.
MouseDown(svg) == [interrupt(ui, svg) EXCEPT !.jsError = FALSE]
NoMouse == [ui EXCEPT !.jsError = FALSE]

\* wiring.js: hourEl "input".
HourInput(h) ==
    /\ h # ui.hour
    /\ LET S1 == repaintHot([NoMouse EXCEPT !.hour = h])
           S2 == IF WindowHasSelectedPrimary /\ S1.selectedPrimary # NoZone
                 THEN renderODForPrimary(S1) ELSE S1
           S3 == applyBoroughFilter(S2)
       IN  Handled(IF S3.clusterTimeViewActive /\ S3.activeTimeClusterId # NoTimeCluster
                   THEN highlightZonesForTimeCluster(S3, S3.activeTimeClusterId)
                   ELSE S3,
                   "hourInput", "done", HourNotifications(S1))

\* wiring.js: .od-view-btn "click".
TabClick(view) ==
    LET S1 == [NoMouse EXCEPT !.clusterTimeViewActive = (view = "cluster"),
                              !.activeTimeClusterId = NoTimeCluster]
    IN  IF view = "od"
        THEN Handled(repaintHot(S1), "tabClick", "od", <<"repaintHot">>)
        ELSE Handled(repaintHot(refreshClusterDetailForCurrent(S1)), "tabClick", "cluster",
                     <<"refreshClusterDetailForCurrent", "repaintHot">>)

\* clusters.js: cluster table row "click" (setActiveTimeClusterOnMap included).
TableRowClick(i) ==
    /\ ui.clusterTimeViewActive
    /\ LET d == clusterTopList[i]
           S1 == renderClusterDetail(NoMouse, d)
       IN  Handled(highlightZonesForTimeCluster(
                       repaintHot([S1 EXCEPT !.activeTimeClusterId = d.topClusterId]),
                       d.topClusterId),
                   "tableRowClick", "done",
                   <<"renderClusterDetail", "highlightClusterRow", "setActiveTimeClusterOnMap">>)

\* The hotSvg handler without the auto-zoom guard.
hotSvgClickUnguarded(D, name) ==
    Handled(clearSelectionAndReset(D), name, "background", <<"clearSelectionAndReset">>)

\* hotmap.js: hotSvg "click".
hotSvgClick(D, name) ==
    IF D.isAutoZooming
    THEN Handled(D, name, "backgroundIgnored", <<>>)
    ELSE Handled(clearSelectionAndReset(D), name, "background",
                 <<"clearSelectionAndReset">>)

\* hotmap.js: hot zone "click"; a path with pointer-events none is no target,
\* so the click lands on the svg behind it.
HotZoneClick(z) ==
    LET D == MouseDown("hot")
        inFilter == D.boroFilter = AllBoroughs \/ getZoneBoroughById(z) = D.boroFilter
    IN  IF D.hotPointer[z] = "none" THEN hotSvgClick(D, "hotZoneClick")
        ELSE IF D.isAutoZooming
        THEN Handled(D, "hotZoneClick", "ignored", <<>>)
        ELSE IF ~inFilter
        THEN Handled(D, "hotZoneClick", "rejected", <<>>)
        ELSE LET S1 == [D EXCEPT !.selectedPrimary = z, !.selectedSecondary = NoZone]
                 S2 == renderODForPrimary(S1)
             IN  Handled(showClusterForZoneAndHour(S2, z, D.hour), "hotZoneClick",
                         "accepted", <<"renderODForPrimary", "showClusterForZoneAndHour">>)

\* A click on the hotspot map outside every zone.
HotEmptyClick == hotSvgClick(MouseDown("hot"), "hotEmptyClick")

\* hotmap.js: hot zone "mouseleave".
HotZoneLeave(z) ==
    /\ ui.hotPointer[z] = "auto"
    /\ HandledHover(restoreViews(NoMouse), "hotZoneLeave", "done", <<"restoreViews">>,
                    HoverNone)

\* hotmap.js: hot zone "mousemove" (the tooltip is not modelled).
HotZoneMove(z) ==
    /\ ui.hotPointer[z] = "auto"
    /\ HandledHover(NoMouse, "hotZoneMove", "done", <<"highlightBoth">>,
                    highlightBoth(ui, z))

\* The OD map and the corridor controls are on screen in the OD tab only.
OdTab == ~ui.clusterTimeViewActive

\* odmap.js: od-node "click".
OdNodeClick(z) ==
    /\ OdTab
    /\ ui.odNodePointer[z] = "auto"
    /\ LET D == MouseDown("od")
       IN  IF D.isAutoZooming
           THEN Handled(D, "odNodeClick", "ignored", <<>>)
           ELSE IF D.selectedPrimary # NoZone /\ D.selectedSecondary = NoZone
           THEN Handled(renderODForPrimary([D EXCEPT !.selectedSecondary = z]),
                        "odNodeClick", "secondary", <<"renderODForPrimary">>)
           ELSE Handled(renderODForPrimary([D EXCEPT !.selectedPrimary = z,
                                                     !.selectedSecondary = NoZone]),
                        "odNodeClick", "primary", <<"renderODForPrimary">>)

\* odmap.js: od-node "mouseleave".
OdNodeLeave(z) ==
    /\ OdTab
    /\ ui.odNodePointer[z] = "auto"
    /\ LET inCorridorOverview ==
               /\ ui.corridorMode
               /\ ui.selectedPrimary = NoZone
               /\ Truthy(ui.activeCorridorId)
       IN  IF ui.isAutoZooming
           THEN Handled(NoMouse, "odNodeLeave", "ignored", <<>>)
           ELSE IF inCorridorOverview
           THEN HandledHover(NoMouse, "odNodeLeave", "overview", <<>>,
                             [hover EXCEPT !.currentHoverId = NoZone])
           ELSE HandledHover(restoreViews(NoMouse), "odNodeLeave", "done",
                             <<"restoreViews">>, HoverNone)

\* odmap.js: od-node "mouseenter" (the tooltip is not modelled).
OdNodeEnter(z) ==
    /\ OdTab
    /\ ui.odNodePointer[z] = "auto"
    /\ LET inCorridorOverview ==
               /\ ui.corridorMode
               /\ ui.selectedPrimary = NoZone
               /\ Truthy(ui.activeCorridorId)
       IN  IF ui.isAutoZooming
           THEN Handled(NoMouse, "odNodeEnter", "ignored", <<>>)
           ELSE IF inCorridorOverview
           THEN Handled(NoMouse, "odNodeEnter", "overview", <<>>)
           ELSE HandledHover(NoMouse, "odNodeEnter", "done", <<"highlightBoth">>,
                             highlightBoth(ui, z))

\* odmap.js: edge-hit "mousemove" and "mouseleave" of both renderers: they
\* show and hide the tooltip only.
OdEdgeMove ==
    /\ OdTab
    /\ ui.odEdges.arcs # {}
    /\ Handled(NoMouse, "odEdgeMove", IF ui.isAutoZooming THEN "ignored" ELSE "tip", <<>>)

OdEdgeLeave ==
    /\ OdTab
    /\ ui.odEdges.arcs # {}
    /\ Handled(NoMouse, "odEdgeLeave", IF ui.isAutoZooming THEN "ignored" ELSE "tip", <<>>)

\* odmap.js: edge-hit "click" of renderODForPrimary, on the edge to otherId.
OdEdgeClick(otherId) ==
    /\ OdTab
    /\ ui.odEdges.kind = "zone"
    /\ \E a \in ui.odEdges.arcs : a.destId = otherId
    /\ Handled(renderODForPrimary([MouseDown("od") EXCEPT !.selectedSecondary = otherId]),
               "odEdgeClick", "done", <<"renderODForPrimary">>)

\* odmap.js: edge-hit "click" of renderCorridorOverview; canonicalKey is the
\* key of the overview that drew the arc.
OdArcClick(originId, destId) ==
    /\ OdTab
    /\ ui.odEdges.kind = "overview"
    /\ \E a \in ui.odEdges.arcs : a.originId = originId /\ a.destId = destId
    /\ Handled(renderODForPrimary([MouseDown("od") EXCEPT
                                      !.corridorOverviewZoneIds = {},
                                      !.selectedPrimary = originId,
                                      !.selectedSecondary = destId,
                                      !.corridorMode = TRUE,
                                      !.activeCorridorId = ui.odEdges.key]),
               "odArcClick", "done", <<"renderODForPrimary">>)

\* The test without the comparison with the key of the last overview.
inPerZoneCorridorViewAnyKey(S) ==
    /\ S.selectedPrimary # NoZone
    /\ S.corridorMode
    /\ Truthy(S.activeCorridorId)

\* The test of the odSvg click handler for "a per-zone corridor view that
\* came from an overview".
inPerZoneCorridorView(S) ==
    /\ S.selectedPrimary # NoZone
    /\ S.corridorMode
    /\ Truthy(S.activeCorridorId)
    /\ S.lastCorridorOverviewKey = S.activeCorridorId

\* The odSvg click handler going back to the overview with the primary kept.
OdEmptyClickKeepsPrimary ==
    /\ OdTab
    /\ LET D == MouseDown("od")
       IN  IF inPerZoneCorridorView(D) /\ Truthy(D.lastCorridorOverviewKey)
           THEN Handled([renderCorridorOverview(D, D.lastCorridorOverviewKey)
                            EXCEPT !.selectedPrimary = D.selectedPrimary],
                        "odEmptyClick", "back", <<"renderCorridorOverview">>)
           ELSE Handled(clearSelectionAndReset(D), "odEmptyClick", "reset",
                        <<"clearSelectionAndReset">>)

\* odmap.js: odSvg "click", a click on the OD map outside every node and edge.
OdEmptyClick ==
    /\ OdTab
    /\ LET D == MouseDown("od")
       IN  IF inPerZoneCorridorView(D) /\ Truthy(D.lastCorridorOverviewKey)
           THEN Handled(renderCorridorOverview([D EXCEPT !.selectedPrimary = NoZone,
                                                         !.selectedSecondary = NoZone],
                                               D.lastCorridorOverviewKey),
                        "odEmptyClick", "back", <<"renderCorridorOverview">>)
           ELSE Handled(clearSelectionAndReset(D), "odEmptyClick", "reset",
                        <<"clearSelectionAndReset">>)

\* odmap.js: boroFilterEl "change".
BoroChange(b) ==
    /\ b # ui.boroFilter
    /\ Handled(clearSelectionAndReset([NoMouse EXCEPT !.boroFilter = b]),
               "boroChange", "done", <<"clearSelectionAndReset">>)

\* ------------------------------------------------------------------------
\* corridors.js
\* ------------------------------------------------------------------------
\* What the user types into the corridor origin and destination inputs.
CorridorInputs == {<<<<"M">>, <<"J">>>>, <<<<"U">>, <<"u">>>>}

RawLabel(oLabel, dLabel) == oLabel \o <<" ", SEP, " ">> \o dLabel

\* corridorFilterEl "change" to the option v.
CorridorFilterChange(v) ==
    /\ OdTab
    /\ ui.availableCorridors # <<>>
    /\ v \in {AllCorridors} \cup {ui.availableCorridors[i].key : i \in 1..Len(ui.availableCorridors)}
    /\ v # ui.corridorFilterValue
    /\ LET S1 == [NoMouse EXCEPT !.corridorFilterValue = v,
                                 !.corridorMode = TRUE,
                                 !.activeCorridorId = IF v = AllCorridors THEN NULL ELSE v,
                                 !.selectedSecondary = NoZone]
       IN  IF S1.selectedPrimary # NoZone
           THEN Handled(renderODForPrimary(S1), "corridorFilterChange",
                        "zone", <<"renderODForPrimary">>)
           ELSE IF v # AllCorridors
           THEN Handled(renderCorridorOverview(S1, v), "corridorFilterChange",
                        "overview", <<"renderCorridorOverview">>)
           ELSE Handled(S1, "corridorFilterChange", "none", <<>>)

\* corridorDestInput "change" with both inputs filled.
DestChange(oLabel, dLabel) ==
    /\ OdTab
    /\ LET key == canonicalCorridorKeyFromLabel(RawLabel(oLabel, dLabel))
           S1 == [NoMouse EXCEPT !.activeCorridorId = key, !.selectedSecondary = NoZone]
       IN  IF S1.selectedPrimary # NoZone
           THEN Handled(renderODForPrimary(S1), "destChange", "zone",
                        <<"renderODForPrimary">>)
           ELSE Handled([S1 EXCEPT !.odSummary = "corridorSelected"], "destChange", "remembered", <<>>)

\* corridorGoBtn "click" with both inputs filled.
GoClick(oLabel, dLabel) ==
    /\ OdTab
    /\ LET key == canonicalCorridorKeyFromLabel(RawLabel(oLabel, dLabel))
           S1 == clearSelectionAndReset([NoMouse EXCEPT !.boroFilter = AllBoroughs])
           S2 == [S1 EXCEPT !.corridorMode = TRUE,
                            !.activeCorridorId = key,
                            !.selectedSecondary = NoZone]
       IN  Handled(renderCorridorOverview(S2, key), "goClick", "done",
                   <<"clearSelectionAndReset", "renderCorridorOverview">>)

\* ------------------------------------------------------------------------
\* Animation frames and zoom gestures
\* ------------------------------------------------------------------------
Svgs == {"hot", "od"}

TransitionOf(S, svg) == IF svg = "hot" THEN S.hotTransition ELSE S.odTransition

\* The next animation frame: d3-timer runs the first tick of every scheduled
\* transition.
FrameTick ==
    /\ "pending" \in {ui.hotTransition, ui.odTransition}
    /\ ui' = [ui EXCEPT !.hotTransition = IF @ = "pending" THEN "running" ELSE @,
                        !.odTransition = IF @ = "pending" THEN "running" ELSE @]
    /\ UNCHANGED <<calls, lastEvent, hover, probeVars>>

\* The last tick: the "end" listener clears the flag.
TransitionEnd(svg) ==
    /\ TransitionOf(ui, svg) = "running"
    /\ ui' = IF svg = "hot"
             THEN [ui EXCEPT !.hotTransition = "none", !.isAutoZooming = FALSE]
             ELSE [ui EXCEPT !.odTransition = "none", !.isAutoZooming = FALSE]
    /\ UNCHANGED <<calls, lastEvent, hover, probeVars>>

\* A wheel or drag gesture on the svg: d3-zoom interrupts its transition.
ZoomGesture(svg) ==
    /\ svg = "od" => OdTab
    /\ TransitionOf(ui, svg) # "none"
    /\ ui' = interrupt(ui, svg)
    /\ UNCHANGED <<calls, lastEvent, hover, probeVars>>

\* ------------------------------------------------------------------------
\* Specification Spec: the dashboard
\* ------------------------------------------------------------------------
KeyNone == [impl |-> "none", k1 |-> NULL, k2 |-> NULL]
AggInNone == [rows |-> <<>>, primary |-> NoZone, hour |-> 0]
AggNone == [done |-> FALSE, pairsAll |-> <<>>]

KeyIdle ==
    /\ keyIn = <<<<>>, <<>>>>
    /\ keyOut = KeyNone

AggIdle ==
    /\ aggIn = AggInNone
    /\ aggOut = AggNone

UiIdle ==
    /\ ui = UiBoot
    /\ calls = <<>>
    /\ lastEvent = NoEvent
    /\ hover = HoverNone

PureNone == [fn |-> "none"]

PureIdle ==
    /\ pureIn = PureNone
    /\ pureOut = PureNone

Init == UiIdle /\ KeyIdle /\ AggIdle /\ PureIdle

Next ==
    \/ \E h \in Hours : HourInput(h)
    \/ \E view \in {"od", "cluster"} : TabClick(view)
    \/ \E i \in 1..Len(clusterTopList) : TableRowClick(i)
    \/ \E z \in Zones : HotZoneClick(z)
    \/ HotEmptyClick
    \/ \E z \in Zones : HotZoneLeave(z)
    \/ \E z \in Zones : OdNodeClick(z)
    \/ \E z \in Zones : OdNodeLeave(z)
    \/ \E z \in Zones : OdEdgeClick(z)
    \/ \E o \in Zones, d \in Zones : OdArcClick(o, d)
    \/ OdEmptyClick
    \/ \E b \in BoroughOptions : BoroChange(b)
    \/ \E v \in {AllCorridors} \cup {canonicalCorridorKeyFromLabel(readableClusterLabel(c)) :
                                         c \in SemanticsIds} : CorridorFilterChange(v)
    \/ \E io \in CorridorInputs : DestChange(io[1], io[2])
    \/ \E io \in CorridorInputs : GoClick(io[1], io[2])
    \/ FrameTick
    \/ \E svg \in Svgs : TransitionEnd(svg)
    \/ \E svg \in Svgs : ZoomGesture(svg)

Spec == Init /\ [][Next]_vars

\* The browser runs the animation frames of every scheduled transition: a
\* pending transition starts and a running one ends.
FairSpec ==
    /\ Spec
    /\ WF_vars(FrameTick)
    /\ WF_vars(TransitionEnd("hot"))
    /\ WF_vars(TransitionEnd("od"))

\* corridorBtn "click": the old toggle button, hidden by every render and
\* reset but still wired.
CorridorBtnClick ==
    /\ OdTab
    /\ ui.selectedPrimary # NoZone
    /\ Handled(renderODForPrimary([NoMouse EXCEPT !.corridorMode = ~ui.corridorMode]),
               "corridorBtnClick", "done", <<"renderODForPrimary">>)

\* ------------------------------------------------------------------------
\* Specification SpecCorridor: the corridor search with endpoints that name
\* no corridor of the semantics
\* ------------------------------------------------------------------------
WideCorridorInputs == CorridorInputs \cup {<<<<"M">>, <<"U">>>>, <<<<"J">>, <<"J">>>>}

NextCorridor ==
    \/ \E h \in Hours : HourInput(h)
    \/ \E z \in Zones : OdNodeClick(z)
    \/ \E o \in Zones, d \in Zones : OdArcClick(o, d)
    \/ OdEmptyClick
    \/ \E v \in {AllCorridors} \cup {canonicalCorridorKeyFromLabel(readableClusterLabel(c)) :
                                         c \in SemanticsIds} : CorridorFilterChange(v)
    \/ CorridorBtnClick
    \/ \E io \in WideCorridorInputs : DestChange(io[1], io[2])
    \/ \E io \in WideCorridorInputs : GoClick(io[1], io[2])
    \/ FrameTick
    \/ \E svg \in Svgs : TransitionEnd(svg)

SpecCorridor == Init /\ [][NextCorridor]_vars

\* ------------------------------------------------------------------------
\* Specification SpecHover: the pointer moves over the two maps
\* ------------------------------------------------------------------------
NextHover ==
    \/ \E z \in Zones : HotZoneMove(z)
    \/ \E z \in Zones : HotZoneLeave(z)
    \/ \E z \in Zones : OdNodeEnter(z)
    \/ \E z \in Zones : OdNodeLeave(z)
    \/ OdEdgeMove
    \/ OdEdgeLeave
    \/ \E z \in Zones : HotZoneClick(z)
    \/ \E io \in CorridorInputs : GoClick(io[1], io[2])
    \/ \E view \in {"od", "cluster"} : TabClick(view)
    \/ \E i \in 1..Len(clusterTopList) : TableRowClick(i)
    \/ FrameTick
    \/ \E svg \in Svgs : TransitionEnd(svg)

SpecHover == Init /\ [][NextHover]_vars

\* ------------------------------------------------------------------------
\* Specification SpecCap: the degree caps of a registry and a flow table
\* ------------------------------------------------------------------------
\* The registry has the zones 1..n, n up to MaxCapZones.
MaxCapZones == 11

\* The zone pairs the flow rows are drawn from.
CapPairs == {<<3, 4>>, <<3, 5>>, <<3, 6>>, <<4, 5>>, <<5, 5>>, <<6, 2>>, <<2, 3>>}

InitCap ==
    /\ \E n \in 1..MaxCapZones, pairs \in SUBSET CapPairs :
           pureIn = [fn |-> "zoneCapMap",
                     ids |-> [i \in 1..n |-> i],
                     rows |-> {[origin_zone |-> pr[1], destination_zone |-> pr[2]] : pr \in pairs}]
    /\ pureOut = PureNone
    /\ KeyIdle
    /\ AggIdle
    /\ UiIdle

BuildZoneCapMap ==
    /\ pureOut.fn = "none"
    /\ pureOut' = [fn |-> "zoneCapMap", caps |-> zoneCapMapOf(pureIn.ids, pureIn.rows)]
    /\ UNCHANGED <<pureIn, keyVars, aggVars, uiVars>>

NextCap == BuildZoneCapMap

SpecCap == InitCap /\ [][NextCap]_vars

\* ------------------------------------------------------------------------
\* Specification SpecRegistry: csvLookup and idTo for one zone feature
\* ------------------------------------------------------------------------
\* !b for a string or a missing value.
Falsy(b) == b = NULL \/ b = <<>>

\* wiring.js normalizeBorough
normalizeBorough(b) ==
    IF Falsy(b) THEN <<"U", "n", "k", "n", "o", "w", "n">>
    ELSE LET str == ToLower(Trim(b))
         IN  IF Includes(str, <<"m", "a", "n", "h", "a", "t", "t", "a", "n">>) THEN <<"M", "a", "n", "h", "a", "t", "t", "a", "n">>
             ELSE IF Includes(str, <<"b", "r", "o", "o", "k", "l", "y", "n">>) THEN <<"B", "r", "o", "o", "k", "l", "y", "n">>
             ELSE IF Includes(str, <<"q", "u", "e", "e", "n", "s">>) THEN <<"Q", "u", "e", "e", "n", "s">>
             ELSE IF Includes(str, <<"b", "r", "o", "n", "x">>) THEN <<"T", "h", "e", " ", "B", "r", "o", "n", "x">>
             ELSE IF Includes(str, <<"s", "t", "a", "t", "e", "n">>) THEN <<"S", "t", "a", "t", "e", "n", " ", "I", "s", "l", "a", "n", "d">>
             ELSE b

\* state.js App.utils.normalizeBorough: no trim, "" for a missing value.
AppNormalizeBorough(b) ==
    IF Falsy(b) THEN <<>>
    ELSE LET str == ToLower(b)
         IN  IF Includes(str, <<"m", "a", "n", "h", "a", "t", "t", "a", "n">>) THEN <<"M", "a", "n", "h", "a", "t", "t", "a", "n">>
             ELSE IF Includes(str, <<"b", "r", "o", "o", "k", "l", "y", "n">>) THEN <<"B", "r", "o", "o", "k", "l", "y", "n">>
             ELSE IF Includes(str, <<"q", "u", "e", "e", "n", "s">>) THEN <<"Q", "u", "e", "e", "n", "s">>
             ELSE IF Includes(str, <<"b", "r", "o", "n", "x">>) THEN <<"T", "h", "e", " ", "B", "r", "o", "n", "x">>
             ELSE IF Includes(str, <<"s", "t", "a", "t", "e", "n">>) THEN <<"S", "t", "a", "t", "e", "n", " ", "I", "s", "l", "a", "n", "d">>
             ELSE b

\* "" + id for the ids of the model.
IdText(id) == IF id = 1 THEN <<"1">> ELSE IF id = 2 THEN <<"2">> ELSE <<"3">>

\* csvLookup.get(id): the last lookup row of the id, found FALSE without one.
csvLookupGet(lookup, id) ==
    LET hits == {i \in 1..Len(lookup) : lookup[i].LocationID = id}
    IN  IF hits = {} THEN [found |-> FALSE]
        ELSE LET r == lookup[CHOOSE i \in hits : \A j \in hits : j <= i]
             IN  [found |-> TRUE, zone |-> r.Zone, borough |-> normalizeBorough(r.Borough)]

\* The entry without the normalization of the feature's borough.
idToEntryRawBorough(f, lookup) ==
    LET lk == csvLookupGet(lookup, f.LocationID)
    IN  [id |-> f.LocationID,
         zone |-> IF lk.found THEN lk.zone
                  ELSE IF ~Falsy(f.Zone) THEN f.Zone
                  ELSE <<"Z", "o", "n", "e", " ">> \o IdText(f.LocationID),
         borough |-> IF lk.found THEN lk.borough ELSE f.Borough]

\* The idTo entry of the feature f.
idToEntry(f, lookup) ==
    LET lk == csvLookupGet(lookup, f.LocationID)
    IN  [id |-> f.LocationID,
         zone |-> IF lk.found THEN lk.zone
                  ELSE IF ~Falsy(f.Zone) THEN f.Zone
                  ELSE <<"Z", "o", "n", "e", " ">> \o IdText(f.LocationID),
         borough |-> IF lk.found THEN lk.borough ELSE normalizeBorough(f.Borough)]

\* Raw borough fields of the lookup table and of the geometry.
BoroughInputs ==
    {NULL, <<>>, <<" ">>, <<"M", "a", "n", "h", "a", "t", "t", "a", "n">>, <<"M", "A", "N", "H", "A", "T", "T", "A", "N">>, <<" ", "q", "u", "e", "e", "n", "s", " ">>, <<"B", "r", "o", "n", "x">>, <<"S", "t", "a", "t", "e", "n", " ", "I", "s">>, <<"b", "r", "o", "o", "k", "l", "y", "n">>, <<"U", "n", "k", "n", "o", "w", "n">>, <<"N", "e", "w", "a", "r", "k">>, <<"N", "/", "A">>}

ZoneNameInputs == {NULL, <<>>, <<"A", "l", "p", "h", "a">>}

LookupInputs ==
    {<<>>} \cup {<<[LocationID |-> id, Zone |-> <<"B", "e", "t", "a">>, Borough |-> b]>> :
                    id \in {1, 2}, b \in BoroughInputs}

InitRegistry ==
    /\ \E id \in {1, 2}, z \in ZoneNameInputs, b \in BoroughInputs, lookup \in LookupInputs :
           pureIn = [fn |-> "idTo",
                     feature |-> [LocationID |-> id, Zone |-> z, Borough |-> b],
                     lookup |-> lookup]
    /\ pureOut = PureNone
    /\ KeyIdle
    /\ AggIdle
    /\ UiIdle

\* wiring.js builds csvLookup and idTo.
BuildRegistry ==
    /\ pureOut.fn = "none"
    /\ pureOut' = [fn |-> "idTo", entry |-> idToEntry(pureIn.feature, pureIn.lookup)]
    /\ UNCHANGED <<pureIn, keyVars, aggVars, uiVars>>

\* The state.js helper applied to the borough field of the feature.
NormalizeBoroughApp ==
    /\ pureOut.fn = "none"
    /\ pureOut' = [fn |-> "App.utils.normalizeBorough",
                   entry |-> [id |-> pureIn.feature.LocationID,
                              zone |-> pureIn.feature.Zone,
                              borough |-> AppNormalizeBorough(pureIn.feature.Borough)]]
    /\ UNCHANGED <<pureIn, keyVars, aggVars, uiVars>>

NextRegistry == BuildRegistry \/ NormalizeBoroughApp

SpecRegistry == InitRegistry /\ [][NextRegistry]_vars

\* ------------------------------------------------------------------------
\* Specification SpecFlows: the two flows cleanup passes
\* ------------------------------------------------------------------------
MaxFlowRows == 2

\* JavaScript values of a flow row field.
JsUndefined == [t |-> "undefined"]
JsNull == [t |-> "null"]
JsNaN == [t |-> "NaN"]
JsString(str) == [t |-> "string", s |-> str]
JsNumber(n) == [t |-> "number", n |-> n]

DigitChars == <<"0", "1", "2", "3", "4", "5", "6", "7", "8", "9">>
IsDigit(c) == \E i \in 1..10 : DigitChars[i] = c
DigitValue(c) == (CHOOSE i \in 1..10 : DigitChars[i] = c) - 1

RECURSIVE DigitsValue(_)
DigitsValue(str) ==
    IF str = <<>> THEN 0
    ELSE DigitsValue(SubSeq(str, 1, Len(str) - 1)) * 10 + DigitValue(str[Len(str)])

AllDigits(str) == str # <<>> /\ \A i \in 1..Len(str) : IsDigit(str[i])

\* Unary plus on a string: trimmed, empty is 0, signed decimal digits, else NaN.
StringToNumber(str) ==
    LET body == Trim(str)
    IN  IF body = <<>> THEN JsNumber(0)
        ELSE IF body[1] = "-" /\ AllDigits(Tail(body)) THEN JsNumber(0 - DigitsValue(Tail(body)))
        ELSE IF body[1] = "+" /\ AllDigits(Tail(body)) THEN JsNumber(DigitsValue(Tail(body)))
        ELSE IF AllDigits(body) THEN JsNumber(DigitsValue(body))
        ELSE JsNaN

\* Unary plus.
ToNumber(v) ==
    IF v.t = "number" THEN v
    ELSE IF v.t = "null" THEN JsNumber(0)
    ELSE IF v.t = "string" THEN StringToNumber(v.s)
    ELSE JsNaN

\* The cleanup without the test for a negative id.
normalizeFlowClusterIdKeepNegative(v) ==
    IF v = JsUndefined \/ v = JsNull \/ v = JsString(<<>>)
    THEN JsNull
    ELSE ToNumber(v)

\* The cluster id branch of the flows cleanup.
normalizeFlowClusterId(v) ==
    IF \/ v = JsUndefined
       \/ v = JsNull
       \/ v = JsString(<<>>)
       \/ (ToNumber(v).t = "number" /\ ToNumber(v).n < 0)
    THEN JsNull
    ELSE ToNumber(v)

\* flows.forEach(d => ...) of wiring.js and of initODMap.
flowsCleanup(rows) ==
    [i \in DOMAIN rows |->
        [origin_zone |-> ToNumber(rows[i].origin_zone),
         destination_zone |-> ToNumber(rows[i].destination_zone),
         time_bin |-> ToNumber(rows[i].time_bin),
         trip_count |-> ToNumber(rows[i].trip_count),
         flow_cluster_id |-> normalizeFlowClusterId(rows[i].flow_cluster_id)]]

\* Cluster id cells: no column, an empty cell, text and typed numbers.
RawClusterIds ==
    {JsUndefined, JsNull, JsString(<<>>), JsString(<<"-", "1">>), JsString(<<"-", "1", "2">>), JsString(<<"0">>),
     JsString(<<"3">>), JsString(<<" ", "0", "7", " ">>), JsNumber(-1), JsNumber(0), JsNumber(3)}

RawFlowRow(cid) ==
    [origin_zone |-> JsString(<<"1">>), destination_zone |-> JsNumber(2),
     time_bin |-> JsString(<<"0", "8">>), trip_count |-> JsNumber(5),
     flow_cluster_id |-> cid]

RawFlowTables ==
    UNION {[1..n -> {RawFlowRow(cid) : cid \in RawClusterIds}] : n \in 1..MaxFlowRows}

InitFlows ==
    /\ \E rows \in RawFlowTables : pureIn = [fn |-> "flowsCleanup", flows |-> rows]
    /\ pureOut = PureNone
    /\ KeyIdle
    /\ AggIdle
    /\ UiIdle

\* wiring.js, section 6.
FlowsCleanupWiring ==
    /\ pureOut.fn = "none"
    /\ pureOut' = [fn |-> "flowsCleanup", passes |-> 1, flows |-> flowsCleanup(pureIn.flows)]
    /\ UNCHANGED <<pureIn, keyVars, aggVars, uiVars>>

\* initODMap runs its own cleanup on the same window.flows array.
FlowsCleanupOdMap ==
    /\ pureOut.fn = "flowsCleanup"
    /\ pureOut.passes = 1
    /\ pureOut' = [fn |-> "flowsCleanup", passes |-> 2, flows |-> flowsCleanup(pureOut.flows)]
    /\ UNCHANGED <<pureIn, keyVars, aggVars, uiVars>>

NextFlows == FlowsCleanupWiring \/ FlowsCleanupOdMap

SpecFlows == InitFlows /\ [][NextFlows]_vars

\* ------------------------------------------------------------------------
\* Specification SpecAreas: buildClusterStructures and renderClusterDetail
\* ------------------------------------------------------------------------
MaxTsRows == 3
TopListSize == 10
HoursOfDay == 24

\* label.replace(/\s*\([^)]*\)\s*$/, ""): the match ends at the end of the
\* text with ")" and optional white space behind it, and starts at the white
\* space in front of the first "(" that has no ")" between it and that ")".
StripTrailingParen(label) ==
    LET t == TrimRight(label)
        opens == IF t # <<>> /\ t[Len(t)] = ")"
                 THEN {i \in 1..(Len(t) - 1) :
                          t[i] = "(" /\ \A j \in (i + 1)..(Len(t) - 1) : t[j] # ")"}
                 ELSE {}
    IN  IF opens = {} THEN label
        ELSE TrimRight(SubSeq(t, 1, (CHOOSE i \in opens : \A j \in opens : i <= j) - 1))

\* `Cluster ${clusterId}`
ClusterText(clusterId) == <<"C", "l", "u", "s", "t", "e", "r", " ">> \o IdText(clusterId)

\* getAreaKeyForCluster without the trailing-suffix pattern: the label as it is.
getAreaKeyUnstripped(sem, clusterId) ==
    IF clusterId \notin DOMAIN sem \/ ~Truthy(sem[clusterId]) THEN ClusterText(clusterId)
    ELSE Trim(sem[clusterId])

\* getAreaKeyForCluster; sem[id] is the label of the semanticsTime entry,
\* NULL without one.
getAreaKeyForCluster(sem, clusterId) ==
    IF clusterId \notin DOMAIN sem \/ ~Truthy(sem[clusterId]) THEN ClusterText(clusterId)
    ELSE Trim(StripTrailingParen(sem[clusterId]))

\* The keys of d3.group(tsData, d => d.cluster_id), in insertion order.
clusterByIdKeys(ts) == Distinct([i \in 1..Len(ts) |-> ts[i].cluster_id])

\* clusterById.get(cid)
RowsOfCluster(ts, cid) == SelectSeq(ts, LAMBDA r : r.cluster_id = cid)

TripCounts(rows) == [i \in 1..Len(rows) |-> rows[i].trip_count]

\* One step of clusterById.forEach for a cluster that is not noise.
addClusterToArea(areas, cid, areaKey, clusterTrips) ==
    IF \E i \in 1..Len(areas) : areas[i].areaKey = areaKey
    THEN [i \in 1..Len(areas) |->
             IF areas[i].areaKey # areaKey THEN areas[i]
             ELSE [areaKey |-> areaKey,
                   total_trip |-> areas[i].total_trip + clusterTrips,
                   clusters |-> Append(areas[i].clusters, cid),
                   topClusterId |-> IF clusterTrips > areas[i].topClusterTrips
                                    THEN cid ELSE areas[i].topClusterId,
                   topClusterTrips |-> IF clusterTrips > areas[i].topClusterTrips
                                       THEN clusterTrips ELSE areas[i].topClusterTrips]]
    ELSE Append(areas, [areaKey |-> areaKey, total_trip |-> clusterTrips,
                        clusters |-> <<cid>>, topClusterId |-> cid,
                        topClusterTrips |-> clusterTrips])

\* areaMap after clusterById.forEach over the keys; clusters is the Set in
\* insertion order.
RECURSIVE areaMapOf(_, _, _)
areaMapOf(ts, sem, keys) ==
    IF keys = <<>> THEN <<>>
    ELSE IF keys[Len(keys)] < 0 THEN areaMapOf(ts, sem, SubSeq(keys, 1, Len(keys) - 1))
    ELSE addClusterToArea(areaMapOf(ts, sem, SubSeq(keys, 1, Len(keys) - 1)),
                          keys[Len(keys)],
                          getAreaKeyForCluster(sem, keys[Len(keys)]),
                          Sum(TripCounts(RowsOfCluster(ts, keys[Len(keys)]))))

TotalTrips(areas) == [i \in 1..Len(areas) |-> areas[i].total_trip]

FirstN(list, n) == SubSeq(list, 1, IF Len(list) < n THEN Len(list) ELSE n)

\* buildClusterStructures: the new clusterTopList; tsData empty leaves the
\* empty list.
buildClusterStructures(ts, sem) ==
    IF ts = <<>> THEN <<>>
    ELSE FirstN(SortDescending(areaMapOf(ts, sem, clusterByIdKeys(ts)),
                               TotalTrips(areaMapOf(ts, sem, clusterByIdKeys(ts)))),
                TopListSize)

\* allRows of renderClusterDetail.
RECURSIVE allRowsOf(_, _)
allRowsOf(ts, clusters) ==
    IF clusters = <<>> THEN <<>>
    ELSE RowsOfCluster(ts, Head(clusters)) \o allRowsOf(ts, Tail(clusters))

\* d3.rollups(allRows, v => d3.sum(v, d => d.trip_count), d => d.time_bin)
groupedByHour(allRows) ==
    LET bins == Distinct([i \in 1..Len(allRows) |-> allRows[i].time_bin])
    IN  [k \in 1..Len(bins) |->
            [time_bin |-> bins[k],
             trip_count |-> Sum(TripCounts(SelectSeq(allRows, LAMBDA r : r.time_bin = bins[k])))]]

\* The series without the points for the hours that have no row.
seriesSparse(grouped) == grouped

\* allHours.map(h => ...): one point for every hour.
seriesOfGrouped(grouped) ==
    [k \in 1..HoursOfDay |->
        [time_bin |-> k - 1,
         trip_count |-> IF \E i \in 1..Len(grouped) : grouped[i].time_bin = k - 1
                        THEN grouped[CHOOSE i \in 1..Len(grouped) :
                                        /\ grouped[i].time_bin = k - 1
                                        /\ \A j \in 1..(i - 1) : grouped[j].time_bin # k - 1].trip_count
                        ELSE 0]]

\* The series renderClusterDetail(areaEntry) draws.
seriesOfArea(ts, areaEntry) == seriesOfGrouped(groupedByHour(allRowsOf(ts, areaEntry.clusters)))

\* Rows of the cluster time-series table after the schema normalization.
TsRowInputs ==
    {[cluster_id |-> -1, time_bin |-> 8, trip_count |-> 4]} \cup
    {[cluster_id |-> c, time_bin |-> h, trip_count |-> n] : c \in {1, 2}, h \in {8, 17}, n \in {4, 6}}

TsTables == UNION {[1..n -> TsRowInputs] : n \in 0..MaxTsRows}

\* Labels of the semanticsTime entries of the clusters 1 and 2.
SemanticsTimeInputs ==
    {[c \in {1, 2} |-> IF c = 1 THEN l1 ELSE l2] :
        l1 \in {NULL, <<"J", "F", "K", " ", "(", "A", "M", " ", "p", "e", "a", "k", ")">>, <<"J", "F", "K">>},
        l2 \in {NULL, <<"J", "F", "K", " ", "(", "P", "M", " ", "p", "e", "a", "k", ")">>, <<"L", "G", "A", " ", "(", "A", "M", " ", "p", "e", "a", "k", ")">>, <<"J", "F", "K", " ", " ", "(", "L", "a", "t", "e", " ", "(", "x", ")", " ">>}}

InitAreas ==
    /\ \E ts \in TsTables, sem \in SemanticsTimeInputs :
           pureIn = [fn |-> "buildClusterStructures", tsData |-> ts, semanticsTime |-> sem]
    /\ pureOut = PureNone
    /\ KeyIdle
    /\ AggIdle
    /\ UiIdle

BuildClusterStructures ==
    /\ pureOut.fn = "none"
    /\ pureOut' = [fn |-> "buildClusterStructures",
                   clusterTopList |-> buildClusterStructures(pureIn.tsData, pureIn.semanticsTime)]
    /\ UNCHANGED <<pureIn, keyVars, aggVars, uiVars>>

\* renderClusterDetail with the datum of the table row i.
RenderClusterDetail(i) ==
    /\ pureOut.fn = "buildClusterStructures"
    /\ i \in 1..Len(pureOut.clusterTopList)
    /\ pureOut' = [fn |-> "renderClusterDetail",
                   clusterTopList |-> pureOut.clusterTopList,
                   areaEntry |-> pureOut.clusterTopList[i],
                   series |-> seriesOfArea(pureIn.tsData, pureOut.clusterTopList[i])]
    /\ UNCHANGED <<pureIn, keyVars, aggVars, uiVars>>

NextAreas == BuildClusterStructures \/ \E i \in 1..2 : RenderClusterDetail(i)

SpecAreas == InitAreas /\ [][NextAreas]_vars

\* ------------------------------------------------------------------------
\* Specification SpecBoot: the data load of wiring.js
\* ------------------------------------------------------------------------
\* The requests of Promise.all, in order.
Datasets == <<"zones", "flows", "lookup", "st", "tsData", "semantics", "semanticsTime">>

\* The requests with a .catch(() => default).
CaughtDatasets == {"lookup", "tsData", "semantics", "semanticsTime"}

\* The promise of one request after its .catch, if it has one.
RequestSettles(name, fetched) ==
    IF fetched THEN "loaded"
    ELSE IF name \in CaughtDatasets THEN "default"
    ELSE "rejected"

\* Promise.all rejects as soon as one of its promises rejects.
PromiseAll(outcome) ==
    IF \E i \in 1..Len(Datasets) : RequestSettles(Datasets[i], outcome[Datasets[i]]) = "rejected"
    THEN "rejected" ELSE "fulfilled"

InitBoot ==
    /\ \E outcome \in [Range(Datasets) -> BOOLEAN] : pureIn = [fn |-> "boot", fetched |-> outcome]
    /\ pureOut = PureNone
    /\ KeyIdle
    /\ AggIdle
    /\ UiIdle

\* await Promise.all([...]): the async function goes on with the data or
\* ends with a rejection nobody handles; nothing is written to the page.
LoadAllData ==
    /\ pureOut.fn = "none"
    /\ pureOut' = [fn |-> "boot",
                   loaded |-> PromiseAll(pureIn.fetched),
                   data |-> [d \in Range(Datasets) |-> RequestSettles(d, pureIn.fetched[d])],
                   unhandledRejection |-> PromiseAll(pureIn.fetched) = "rejected",
                   errorShown |-> FALSE,
                   viewsInitialised |-> FALSE]
    /\ UNCHANGED <<pureIn, keyVars, aggVars, uiVars>>

\* Sections 3 to 11 of wiring.js: registry, cleanup, the init functions of
\* the views and the initial paint.
InitialiseViews ==
    /\ pureOut.fn = "boot"
    /\ pureOut.loaded = "fulfilled"
    /\ ~pureOut.viewsInitialised
    /\ pureOut' = [pureOut EXCEPT !.viewsInitialised = TRUE]
    /\ UNCHANGED <<pureIn, keyVars, aggVars, uiVars>>

NextBoot == LoadAllData \/ InitialiseViews

SpecBoot == InitBoot /\ [][NextBoot]_vars

\* ------------------------------------------------------------------------
\* Specification SpecPaint: applyBoroughFilter on the attributes of the
\* three layers
\* ------------------------------------------------------------------------
\* The repaint with nodes outside the filter dimmed from their present opacity.
applyBoroughFilterDimming(dom, st) ==
    [odPoly |-> [z \in Zones |->
            IF st.boroFilter # AllBoroughs /\ getZoneBoroughById(z) = st.boroFilter
            THEN [fill |-> <<"BOROUGH_HIGHLIGHT", getZoneBoroughById(z)>>,
                  stroke |-> "#7e22ce", strokeWidth |-> "1.1"]
            ELSE IF st.boroFilter = AllBoroughs
            THEN [fill |-> <<"#ffffff">>, stroke |-> "rgba(152,163,179,.7)", strokeWidth |-> "0.7"]
            ELSE [fill |-> <<"#ffffff">>, stroke |-> "rgba(152,163,184,.4)", strokeWidth |-> "0.5"]],
        odNode |-> [z \in Zones |->
            IF st.selectedPrimary # NoZone THEN dom.odNode[z]
            ELSE IF st.corridorMode /\ Truthy(st.activeCorridorId)
                    /\ st.corridorOverviewZoneIds # {}
            THEN IF z \in st.corridorOverviewZoneIds
                 THEN [opacity |-> "1", pointerEvents |-> "auto"]
                 ELSE [opacity |-> "0", pointerEvents |-> "none"]
            ELSE IF st.boroFilter = AllBoroughs \/ getZoneBoroughById(z) = st.boroFilter
                 THEN [opacity |-> "1", pointerEvents |-> "auto"]
                 ELSE [opacity |-> IF dom.odNode[z].opacity = "1" THEN "0.2" ELSE "0.04",
                       pointerEvents |-> "none"]],
     hot |-> [z \in Zones |->
            [fillOpacity |->
                 IF st.selectedPrimary # NoZone
                 THEN (IF z = st.selectedPrimary THEN "1" ELSE "0.15")
                 ELSE IF st.boroFilter = AllBoroughs THEN "0.95"
                 ELSE IF getZoneBoroughById(z) = st.boroFilter THEN "0.95" ELSE "0.15",
             strokeWidth |-> IF st.selectedPrimary # NoZone /\ z = st.selectedPrimary
                             THEN "1.4" ELSE "0.7",
             stroke |-> boroughStroke(st, z),
             pointerEvents |->
                 IF st.boroFilter # AllBoroughs /\ getZoneBoroughById(z) # st.boroFilter
                 THEN "none" ELSE "auto"]]]

\* applyBoroughFilter: the attributes of OD polygons, OD nodes and hotspot
\* polygons; st holds the filter value, the primary and the corridor state.
applyBoroughFilterAttrs(dom, st) ==
    [odPoly |-> [z \in Zones |->
            IF st.boroFilter # AllBoroughs /\ getZoneBoroughById(z) = st.boroFilter
            THEN [fill |-> <<"BOROUGH_HIGHLIGHT", getZoneBoroughById(z)>>,
                  stroke |-> "#7e22ce", strokeWidth |-> "1.1"]
            ELSE IF st.boroFilter = AllBoroughs
            THEN [fill |-> <<"#ffffff">>, stroke |-> "rgba(152,163,179,.7)", strokeWidth |-> "0.7"]
            ELSE [fill |-> <<"#ffffff">>, stroke |-> "rgba(152,163,184,.4)", strokeWidth |-> "0.5"]],
        odNode |-> [z \in Zones |->
            IF st.selectedPrimary # NoZone THEN dom.odNode[z]
            ELSE IF st.corridorMode /\ Truthy(st.activeCorridorId)
                    /\ st.corridorOverviewZoneIds # {}
            THEN IF z \in st.corridorOverviewZoneIds
                 THEN [opacity |-> "1", pointerEvents |-> "auto"]
                 ELSE [opacity |-> "0", pointerEvents |-> "none"]
            ELSE IF st.boroFilter = AllBoroughs \/ getZoneBoroughById(z) = st.boroFilter
                 THEN [opacity |-> "1", pointerEvents |-> "auto"]
                 ELSE [opacity |-> "0.2", pointerEvents |-> "none"]],
     hot |-> [z \in Zones |->
            [fillOpacity |->
                 IF st.selectedPrimary # NoZone
                 THEN (IF z = st.selectedPrimary THEN "1" ELSE "0.15")
                 ELSE IF st.boroFilter = AllBoroughs THEN "0.95"
                 ELSE IF getZoneBoroughById(z) = st.boroFilter THEN "0.95" ELSE "0.15",
             strokeWidth |-> IF st.selectedPrimary # NoZone /\ z = st.selectedPrimary
                             THEN "1.4" ELSE "0.7",
             stroke |-> boroughStroke(st, z),
             pointerEvents |->
                 IF st.boroFilter # AllBoroughs /\ getZoneBoroughById(z) # st.boroFilter
                 THEN "none" ELSE "auto"]]]

\* Attributes the layers can have before the call.
DomInputs ==
    {[odPoly |-> [z \in Zones |-> [fill |-> <<"#ffffff">>, stroke |-> "rgba(152,163,179,.7)",
                                    strokeWidth |-> "0.7"]],
      odNode |-> [z \in Zones |-> IF z \in shown
                                   THEN [opacity |-> "1", pointerEvents |-> "auto"]
                                   ELSE [opacity |-> "0", pointerEvents |-> "none"]],
      hot |-> [z \in Zones |-> [fillOpacity |-> "0.95", strokeWidth |-> "0.7",
                                 stroke |-> hs, pointerEvents |-> "auto"]]] :
        shown \in {Zones, {1, 2}}, hs \in {"#000", "#dc2626"}}

PaintStates ==
    [boroFilter : {AllBoroughs, "Manhattan", "Queens"},
     selectedPrimary : {NoZone} \cup Zones,
     corridorMode : BOOLEAN,
     activeCorridorId : {NULL, canonicalCorridorKeyFromLabel(SemanticsLabel(3))},
     corridorOverviewZoneIds : {{}, {1, 2}}]

InitPaint ==
    /\ \E dom \in DomInputs, st \in PaintStates :
           pureIn = [fn |-> "applyBoroughFilter", dom |-> dom, st |-> st]
    /\ pureOut = PureNone
    /\ KeyIdle
    /\ AggIdle
    /\ UiIdle

\* The first call.
ApplyBoroughFilterOnce ==
    /\ pureOut.fn = "none"
    /\ pureOut' = [fn |-> "applyBoroughFilter", passes |-> 1,
                   first |-> applyBoroughFilterAttrs(pureIn.dom, pureIn.st),
                   dom |-> applyBoroughFilterAttrs(pureIn.dom, pureIn.st)]
    /\ UNCHANGED <<pureIn, keyVars, aggVars, uiVars>>

\* The second call, the state unchanged.
ApplyBoroughFilterAgain ==
    /\ pureOut.fn = "applyBoroughFilter"
    /\ pureOut.passes = 1
    /\ pureOut' = [pureOut EXCEPT !.passes = 2,
                                  !.dom = applyBoroughFilterAttrs(pureOut.dom, pureIn.st)]
    /\ UNCHANGED <<pureIn, keyVars, aggVars, uiVars>>

NextPaint == ApplyBoroughFilterOnce \/ ApplyBoroughFilterAgain

SpecPaint == InitPaint /\ [][NextPaint]_vars

\* ------------------------------------------------------------------------
\* Specification SpecShown: pairs and shownPairs of renderODForPrimary
\* ------------------------------------------------------------------------
MaxPartners == 22

\* The caps zoneCapMap holds.
CapValues == {20, 30, 40, 50}

\* Totals of the partners 1..n in the order byOther lists them.
TotalPatterns == {"rising", "falling", "equal", "mixed"}

PartnerTotal(pattern, i) ==
    CASE pattern = "rising" -> i
      [] pattern = "falling" -> 100 - i
      [] pattern = "equal" -> 7
      [] OTHER -> 1 + ((i * 7) % 5)

\* pairsAll of a primary with the partners 1..n.
PartnerPairs(n, pattern) ==
    [i \in 1..n |-> [otherId |-> i, outCount |-> PartnerTotal(pattern, i), inCount |-> 0,
                      total |-> PartnerTotal(pattern, i), corridorClusterId |-> NoCluster]]

InitShown ==
    /\ \E n \in 19..MaxPartners, pattern \in TotalPatterns, cap \in CapValues,
          secondary \in {NoZone, 3, 99} :
           pureIn = [fn |-> "shownPairs", pairsAll |-> PartnerPairs(n, pattern),
                     capForPrimary |-> cap, selectedSecondary |-> secondary]
    /\ pureOut = PureNone
    /\ KeyIdle
    /\ AggIdle
    /\ UiIdle

\* renderODForPrimary from pairsAll to shownPairs.
RenderShownPairs ==
    /\ pureOut.fn = "none"
    /\ pureOut' = [fn |-> "shownPairs",
                   shownPairs |-> shownPairsCapped(Pairs(pureIn.pairsAll, pureIn.selectedSecondary),
                                                   pureIn.capForPrimary, pureIn.selectedSecondary)]
    /\ UNCHANGED <<pureIn, keyVars, aggVars, uiVars>>

NextShown == RenderShownPairs

SpecShown == InitShown /\ [][NextShown]_vars

\* ------------------------------------------------------------------------
\* Specification SpecKey: the key of a two-endpoint label and of its swap
\* ------------------------------------------------------------------------
NameChars == {"a", "E", "e", "'", " "}

RECURSIVE StringsUpTo(_, _)
StringsUpTo(chars, n) ==
    IF n = 0 THEN {<<>>}
    ELSE LET shorter == StringsUpTo(chars, n - 1)
         IN  shorter \cup {Append(s, c) : s \in {t \in shorter : Len(t) = n - 1}, c \in chars}

\* Endpoint names: non-empty strings without the separator.
Names == StringsUpTo(NameChars, MaxNameLen) \ {<<>>}

Separators == {<<SEP>>, <<" ", SEP, " ">>}

InitKey ==
    /\ \E a \in Names, b \in Names, s \in Separators :
           keyIn = <<a \o s \o b, b \o s \o a>>
    /\ keyOut = KeyNone
    /\ AggIdle
    /\ UiIdle
    /\ PureIdle

\* The key of the label and of the swapped label, by the corridors.js helper.
ComputeKeys ==
    /\ keyOut.impl = "none"
    /\ keyOut' = [impl |-> "corridors",
                  k1 |-> canonicalCorridorKeyFromLabel(keyIn[1]),
                  k2 |-> canonicalCorridorKeyFromLabel(keyIn[2])]
    /\ UNCHANGED <<keyIn, aggVars, uiVars, pureVars>>

\* The same by the state.js helper.
ComputeKeysApp ==
    /\ keyOut.impl = "none"
    /\ keyOut' = [impl |-> "state",
                  k1 |-> AppCanonicalCorridorKeyFromLabel(keyIn[1]),
                  k2 |-> AppCanonicalCorridorKeyFromLabel(keyIn[2])]
    /\ UNCHANGED <<keyIn, aggVars, uiVars, pureVars>>

NextKey == ComputeKeys \/ ComputeKeysApp

SpecKey == InitKey /\ [][NextKey]_vars

\* ------------------------------------------------------------------------
\* Specification SpecAgg: renderODForPrimary's aggregation on small tables
\* ------------------------------------------------------------------------
MaxRows == 3

AggZonePairs == {<<1, 2>>, <<2, 1>>, <<1, 1>>}
AggHours == {8, 9}
AggTrips == {30, 50}
AggClusters == {NoCluster, 3, 4}

\* Rows at the probed hour, and two rows of another hour.
AggRows ==
    {FlowRow(od[1], od[2], 8, n, c) : od \in AggZonePairs, n \in AggTrips, c \in AggClusters}
        \cup {FlowRow(1, 2, 9, 50, 4), FlowRow(2, 1, 9, 30, NoCluster)}

RECURSIVE SeqsUpTo(_, _)
SeqsUpTo(S, n) ==
    IF n = 0 THEN {<<>>}
    ELSE LET shorter == SeqsUpTo(S, n - 1)
         IN  shorter \cup {Append(q, x) : q \in {t \in shorter : Len(t) = n - 1}, x \in S}

InitAgg ==
    /\ \E rows \in SeqsUpTo(AggRows, MaxRows), p \in {1, 2}, h \in AggHours :
           aggIn = [rows |-> rows, primary |-> p, hour |-> h]
    /\ aggOut = AggNone
    /\ KeyIdle
    /\ UiIdle
    /\ PureIdle

Aggregate ==
    /\ ~aggOut.done
    /\ aggOut' = [done |-> TRUE, pairsAll |-> PairsAll(aggIn.rows, aggIn.primary, aggIn.hour)]
    /\ UNCHANGED <<aggIn, keyVars, uiVars, pureVars>>

NextAgg == Aggregate

SpecAgg == InitAgg /\ [][NextAgg]_vars

\* C1: for every label with exactly two endpoint names A and B around the
\* separator, canonicalKey("A sep B") equals canonicalKey("B sep A").
C1_KeySymmetric ==
    keyOut.impl # "none" => keyOut.k1 = keyOut.k2

\* ------------------------------------------------------------------------
\* The flow table read directly, for the statements about the aggregation
\* ------------------------------------------------------------------------
\* Summed trips of the rows a -> b at hour h.
TripsFromTo(rows, a, b, h) ==
    Trips(SelectSeq(rows, LAMBDA r : r.origin_zone = a /\ r.destination_zone = b /\ r.time_bin = h))

\* Summed trips of the rows between p and o at hour h that carry cluster c.
TripsOfCluster(rows, p, o, h, c) ==
    Trips(SelectSeq(rows, LAMBDA r : /\ r.time_bin = h
                                     /\ r.flow_cluster_id = c
                                     /\ \/ r.origin_zone = p /\ r.destination_zone = o
                                        \/ r.origin_zone = o /\ r.destination_zone = p))

\* The zones that share a row with p at hour h.
PartnersOf(rows, p, h) ==
    {o \in Zones : \E i \in 1..Len(rows) :
        /\ rows[i].time_bin = h
        /\ \/ rows[i].origin_zone = p /\ rows[i].destination_zone = o
           \/ rows[i].origin_zone = o /\ rows[i].destination_zone = p}

ClustersBetween(rows, p, o, h) ==
    {rows[i].flow_cluster_id : i \in {j \in 1..Len(rows) :
        /\ rows[j].time_bin = h
        /\ rows[j].flow_cluster_id # NoCluster
        /\ \/ rows[j].origin_zone = p /\ rows[j].destination_zone = o
           \/ rows[j].origin_zone = o /\ rows[j].destination_zone = p}}

\* The dominant cluster of entry e is a cluster of the pair with the highest
\* summed trips, and null exactly when no row of the pair carries a cluster.
DominantIsHighest(rows, p, h, e) ==
    LET cs == ClustersBetween(rows, p, e.otherId, h)
    IN  IF cs = {} THEN e.corridorClusterId = NoCluster
        ELSE /\ e.corridorClusterId \in cs
             /\ \A c \in cs : TripsOfCluster(rows, p, e.otherId, h, e.corridorClusterId)
                                  >= TripsOfCluster(rows, p, e.otherId, h, c)

\* One entry per partner, and no other entry.
EntriesArePartners(rows, p, h, pairsAll) ==
    /\ {pairsAll[i].otherId : i \in 1..Len(pairsAll)} = PartnersOf(rows, p, h)
    /\ \A i, j \in 1..Len(pairsAll) : pairsAll[i].otherId = pairsAll[j].otherId => i = j

\* C2 (as stated): the partners of p at h are the zones sharing a row with p
\* at h; for each partner o, outCount is the summed trips of the rows p -> o,
\* inCount the summed trips of the rows o -> p, total their sum, and the
\* dominant cluster the cluster id with the highest summed trips of the pair.
C2_AggregateAsStated ==
    aggOut.done =>
        LET rows == aggIn.rows
            p == aggIn.primary
            h == aggIn.hour
        IN  /\ EntriesArePartners(rows, p, h, aggOut.pairsAll)
            /\ \A i \in 1..Len(aggOut.pairsAll) :
                   LET e == aggOut.pairsAll[i]
                   IN  /\ e.outCount = TripsFromTo(rows, p, e.otherId, h)
                       /\ e.inCount = TripsFromTo(rows, e.otherId, p, h)
                       /\ e.total = e.outCount + e.inCount
                       /\ DominantIsHighest(rows, p, h, e)

\* C2 (amended): as above for every partner o other than p; the rows p -> p
\* make p its own partner and are counted once, as outgoing: outCount is
\* their summed trips and inCount is 0.
C2_AggregatePerPartner ==
    aggOut.done =>
        LET rows == aggIn.rows
            p == aggIn.primary
            h == aggIn.hour
        IN  /\ EntriesArePartners(rows, p, h, aggOut.pairsAll)
            /\ \A i \in 1..Len(aggOut.pairsAll) :
                   LET e == aggOut.pairsAll[i]
                   IN  /\ e.outCount = TripsFromTo(rows, p, e.otherId, h)
                       /\ e.inCount = IF e.otherId = p THEN 0
                                      ELSE TripsFromTo(rows, e.otherId, p, h)
                       /\ e.total = e.outCount + e.inCount
                       /\ DominantIsHighest(rows, p, h, e)

\* The scenario of C2: rows 1 -> 2 (50, cluster 3) and 2 -> 1 (30, cluster 3)
\* at hour 8, primary 1, hour 8: one partner 2 with 50 out, 30 in, 80 in
\* total and dominant cluster 3.
C2_Scenario ==
    /\ aggIn = [rows |-> <<FlowRow(1, 2, 8, 50, 3), FlowRow(2, 1, 8, 30, 3)>>,
                primary |-> 1, hour |-> 8]
    /\ aggOut = [done |-> TRUE,
                 pairsAll |-> <<[otherId |-> 2, outCount |-> 50, inCount |-> 30,
                                 total |-> 80, corridorClusterId |-> 3]>>]


\* ------------------------------------------------------------------------
\* C3: the notification sequence
\* ------------------------------------------------------------------------
\* The sequence as stated, for the dashboard state the handler leaves.
FixedSequence(S) ==
    <<"repaintHot", "paintOdNodesFromHot">>
        \o (IF S.selectedPrimary # NoZone THEN <<"renderODForPrimary">> ELSE <<>>)
        \o <<"applyBoroughFilter">>
        \o (IF S.clusterTimeViewActive THEN <<"highlightZonesForTimeCluster">> ELSE <<>>)

StateChangingEvent ==
    \/ lastEvent.name \in {"hourInput", "boroChange", "corridorFilterChange", "goClick", "tabClick"}
    \/ lastEvent.name = "hotZoneClick" /\ lastEvent.branch = "accepted"

\* C3: every state-changing UI action (hour input, zone click, borough
\* change, corridor selection, tab toggle) makes exactly the calls of the
\* fixed notification sequence, in its order.
C3_FixedNotificationSequence == StateChangingEvent => calls = FixedSequence(ui)

\* ------------------------------------------------------------------------
\* C4: the OD flows after an hour input
\* ------------------------------------------------------------------------
\* C4: after an hour input with a primary selected the edges on the OD map
\* are those renderODForPrimary draws for the primary at the new hour.
C4_FlowsOfNewHour ==
    (lastEvent.name = "hourInput" /\ ui.selectedPrimary # NoZone)
        => ui.odEdges = renderODForPrimary(ui).odEdges

\* ------------------------------------------------------------------------
\* C5: a click on empty space of the OD map
\* ------------------------------------------------------------------------
\* CorridorZoneView (a primary and an active corridor) whose corridor is the
\* one of the last overview.
CorridorZoneViewFromOverview ==
    /\ ui.selectedPrimary # NoZone
    /\ ui.corridorMode
    /\ ui.activeCorridorId # NULL
    /\ ui.lastCorridorOverviewKey = ui.activeCorridorId

\* C5: an empty click on the OD map in CorridorZoneView that came from an
\* overview clears primary and secondary and keeps corridor mode and the
\* active key; in every other state it leaves no primary, no secondary,
\* corridor mode off and no active key.
C5_EmptyClickBackOrReset ==
    [][OdEmptyClick =>
         /\ ui'.selectedPrimary = NoZone
         /\ ui'.selectedSecondary = NoZone
         /\ IF CorridorZoneViewFromOverview
            THEN ui'.corridorMode /\ ui'.activeCorridorId = ui.activeCorridorId
            ELSE ~ui'.corridorMode /\ ui'.activeCorridorId = NULL]_vars

\* An empty click has led from a zone of a corridor back to its overview.
C5_BackToOverview ==
    /\ lastEvent.name = "odEmptyClick"
    /\ lastEvent.branch = "back"
    /\ lastEvent.primaryBefore # NoZone
    /\ ui.selectedPrimary = NoZone
    /\ ui.odEdges.kind = "overview"

\* ------------------------------------------------------------------------
\* C6: a click on an arc of the corridor overview
\* ------------------------------------------------------------------------
\* C6: after a click on the arc o -> d of the overview of key K the primary
\* is o, the secondary is d, corridor mode is on and the active key is K.
C6_ArcClickStaysLocked ==
    [][\A o \in Zones, d \in Zones :
         OdArcClick(o, d) =>
             /\ ui'.selectedPrimary = o
             /\ ui'.selectedSecondary = d
             /\ ui'.corridorMode
             /\ ui'.activeCorridorId = ui.odEdges.key]_vars

\* ------------------------------------------------------------------------
\* C7: from ZoneSelected back to Idle
\* ------------------------------------------------------------------------
Idle(S) == S.selectedPrimary = NoZone /\ S.selectedSecondary = NoZone

\* C7 as stated: from ZoneSelected an empty click on the hotspot map or a
\* borough change always leaves no primary and no secondary.
C7_AlwaysBackToIdle ==
    [][(ui.selectedPrimary # NoZone /\ (HotEmptyClick \/ \E b \in BoroughOptions : BoroChange(b)))
           => Idle(ui')]_vars

\* C7: from ZoneSelected a borough change leaves no primary and no
\* secondary; an empty click on the hotspot map does so unless the auto-zoom
\* flag is set when the click is handled, and then the selection is kept.
C7_BackToIdleUnlessZooming ==
    [][ui.selectedPrimary # NoZone =>
         /\ (\E b \in BoroughOptions : BoroChange(b)) => Idle(ui')
         /\ HotEmptyClick =>
                IF interrupt(ui, "hot").isAutoZooming
                THEN /\ ui'.selectedPrimary = ui.selectedPrimary
                     /\ ui'.selectedSecondary = ui.selectedSecondary
                ELSE Idle(ui')]_vars

\* An empty click on the hotspot map has cleared a selected primary.
C7_EmptyClickCleared ==
    /\ lastEvent.name = "hotEmptyClick"
    /\ lastEvent.branch = "background"
    /\ lastEvent.primaryBefore # NoZone
    /\ Idle(ui)

\* ------------------------------------------------------------------------
\* C8: a click on a hotspot zone outside the borough filter
\* ------------------------------------------------------------------------
\* C8: a click on a hotspot zone outside the active borough filter leaves
\* primary, secondary, corridor state and the OD edges as they were.
C8_OutOfFilterClickNoOp ==
    [][\A z \in Zones :
         (/\ ui.boroFilter # AllBoroughs
          /\ getZoneBoroughById(z) # ui.boroFilter
          /\ HotZoneClick(z))
         => /\ ui'.selectedPrimary = ui.selectedPrimary
            /\ ui'.selectedSecondary = ui.selectedSecondary
            /\ ui'.corridorMode = ui.corridorMode
            /\ ui'.activeCorridorId = ui.activeCorridorId
            /\ ui'.odEdges = ui.odEdges]_vars

\* ------------------------------------------------------------------------
\* C9: an accepted click on a hotspot zone
\* ------------------------------------------------------------------------
\* C9: an accepted click on hotspot zone z at hour h leaves primary z, no
\* secondary, the OD edges of z at h, the cluster of (z, h) in the cluster
\* panel when st has one, and no error.
C9_AcceptedClickEffects ==
    (lastEvent.name = "hotZoneClick" /\ lastEvent.branch = "accepted")
        => /\ ui.selectedPrimary # NoZone
           /\ ui.selectedSecondary = NoZone
           /\ ui.odEdges.kind = "zone"
           /\ <<ui.selectedPrimary, ui.hour>> \in StRows => ui.clusterDetail # "none"
           /\ ~ui.jsError

\* ------------------------------------------------------------------------
\* C10: the auto-zoom flag
\* ------------------------------------------------------------------------
\* C10: whenever isAutoZooming is set it is eventually reset.
C10_FlagEventuallyReset == ui.isAutoZooming ~> ~ui.isAutoZooming

\* ------------------------------------------------------------------------
\* C11: hover handlers during an auto-zoom
\* ------------------------------------------------------------------------
HoverHandler ==
    \/ \E z \in Zones : HotZoneMove(z) \/ HotZoneLeave(z) \/ OdNodeEnter(z) \/ OdNodeLeave(z)
    \/ OdEdgeMove
    \/ OdEdgeLeave

\* C11: while isAutoZooming is set every hover handler leaves the hovered
\* zone and the cross-highlight styling as they are.
C11_HoverNoOpWhileZooming ==
    [][(ui.isAutoZooming /\ HoverHandler) => hover' = hover]_vars

\* ------------------------------------------------------------------------
\* C12: the stroke of noise zones
\* ------------------------------------------------------------------------
\* C12: in every state a handler has left, each hotspot zone whose row of
\* the current hour has cluster id -1 has the noise stroke colour.
C12_NoiseStroke ==
    \A z \in Zones :
        (<<z, ui.hour>> \in StRows /\ StClusterId(z, ui.hour) = -1)
            => ui.hotStroke[z] = "#dc2626"

\* ------------------------------------------------------------------------
\* C13: a secondary only with a primary
\* ------------------------------------------------------------------------
\* C13: in every reachable state a selected secondary implies a selected
\* primary.
C13_SecondaryNeedsPrimary == ui.selectedSecondary # NoZone => ui.selectedPrimary # NoZone

\* A click on a node, an edge or an arc has selected a secondary.
C13_PairSelected ==
    /\ lastEvent.name \in {"odNodeClick", "odEdgeClick", "odArcClick"}
    /\ ui.selectedPrimary # NoZone
    /\ ui.selectedSecondary # NoZone

\* ------------------------------------------------------------------------
\* C14: an active corridor key only in corridor mode
\* ------------------------------------------------------------------------
\* C14 as stated: in every reachable state an active corridor key implies
\* corridor mode.
C14_KeyNeedsCorridorMode == ui.activeCorridorId # NULL => ui.corridorMode

\* C14: an active corridor key with corridor mode off is a key remembered
\* from the corridor inputs while no primary is selected and no overview is
\* drawn; with a primary selected or an overview drawn an active key implies
\* corridor mode.
C14_KeyWithoutModeIsRemembered ==
    (ui.activeCorridorId # NULL /\ ~ui.corridorMode)
        => /\ ui.selectedPrimary = NoZone
           /\ ui.odEdges.kind # "overview"
           /\ ui.corridorOverviewZoneIds = {}

\* A corridor is active in corridor mode with a primary selected.
C14_KeyInCorridorMode ==
    /\ ui.activeCorridorId # NULL
    /\ ui.corridorMode
    /\ ui.selectedPrimary # NoZone

\* ------------------------------------------------------------------------
\* C15: degree caps
\* ------------------------------------------------------------------------
\* The number of distinct zones a flow row connects z with.
DegreeOf(rows, z) ==
    Cardinality({w \in 1..MaxCapZones + 1 :
        \E r \in rows : {r.origin_zone, r.destination_zone} = {z, w}})

CapCount(caps, ids, least) == Cardinality({z \in Range(ids) : caps[z] >= least})

\* C15: a zone of higher degree never has a lower cap, and the caps are 50
\* for the top 5% of the ranking, 40 up to 10%, 30 up to 20% and 20 for the
\* rest.
C15_CapMonotone ==
    pureOut.fn = "zoneCapMap" =>
        LET ids == pureIn.ids
            n == Len(ids)
            caps == pureOut.caps
        IN  /\ \A z1 \in Range(ids), z2 \in Range(ids) :
                   DegreeOf(pureIn.rows, z1) > DegreeOf(pureIn.rows, z2)
                       => caps[z1] >= caps[z2]
            /\ \A z \in Range(ids) : caps[z] \in {50, 40, 30, 20}
            /\ CapCount(caps, ids, 50) = CeilPercent(n, 5)
            /\ CapCount(caps, ids, 40) = CeilPercent(n, 10)
            /\ CapCount(caps, ids, 30) = CeilPercent(n, 20)

\* Eleven zones: the zone of highest degree is not the first of the registry
\* and has the cap 50; the caps 40 and 30 are given as well.
C15_RankedRegistry ==
    /\ pureOut.fn = "zoneCapMap"
    /\ Len(pureIn.ids) = MaxCapZones
    /\ pureOut.caps[3] = 50
    /\ DegreeOf(pureIn.rows, 3) > DegreeOf(pureIn.rows, 1)
    /\ \E z \in Range(pureIn.ids) : pureOut.caps[z] = 40
    /\ \E z \in Range(pureIn.ids) : pureOut.caps[z] = 30

\* ------------------------------------------------------------------------
\* C16: a zone feature without a lookup row
\* ------------------------------------------------------------------------
NoLookupRow ==
    /\ pureOut.fn = "idTo"
    /\ \A i \in 1..Len(pureIn.lookup) : pureIn.lookup[i].LocationID # pureIn.feature.LocationID

\* The borough a lookup row with the same raw borough field gives the zone.
LookupSourcedBorough(f) ==
    idToEntry(f, <<[LocationID |-> f.LocationID, Zone |-> f.Zone, Borough |-> f.Borough]>>).borough

\* C16 as stated: without a lookup row the name is "Zone " followed by the
\* id and the borough is the normalized borough field of the geometry.
C16_SynthesizedName ==
    NoLookupRow =>
        /\ pureOut.entry.zone = <<"Z", "o", "n", "e", " ">> \o IdText(pureIn.feature.LocationID)
        /\ pureOut.entry.borough = LookupSourcedBorough(pureIn.feature)

\* C16: without a lookup row the name is the geometry's own Zone property
\* when it has a non-empty one and "Zone " followed by the id otherwise; the
\* borough is the normalized borough field of the geometry.
C16_OwnNameOrSynthesized ==
    NoLookupRow =>
        /\ pureOut.entry.zone =
               IF pureIn.feature.Zone # NULL /\ pureIn.feature.Zone # <<>>
               THEN pureIn.feature.Zone
               ELSE <<"Z", "o", "n", "e", " ">> \o IdText(pureIn.feature.LocationID)
        /\ pureOut.entry.borough = LookupSourcedBorough(pureIn.feature)

\* Zone 2 without a lookup row and without a name of its own, its borough
\* field in another spelling.
C16_NamelessFeature ==
    /\ NoLookupRow
    /\ pureIn.lookup # <<>>
    /\ pureIn.feature.Zone = NULL
    /\ pureIn.feature.Borough = <<" ", "q", "u", "e", "e", "n", "s", " ">>
    /\ pureOut.entry.zone = <<"Z", "o", "n", "e", " ", "2">>
    /\ pureOut.entry.borough = <<"Q", "u", "e", "e", "n", "s">>

\* ------------------------------------------------------------------------
\* C17: the boroughs of the registry
\* ------------------------------------------------------------------------
BoroughEnum == {<<"M", "a", "n", "h", "a", "t", "t", "a", "n">>, <<"B", "r", "o", "o", "k", "l", "y", "n">>, <<"Q", "u", "e", "e", "n", "s">>, <<"T", "h", "e", " ", "B", "r", "o", "n", "x">>, <<"S", "t", "a", "t", "e", "n", " ", "I", "s", "l", "a", "n", "d">>, <<"U", "n", "k", "n", "o", "w", "n">>}

\* C17: borough normalization returns a member of the closed set, so the
\* borough of every registry entry is one.
C17_BoroughInEnum == pureOut.fn # "none" => pureOut.entry.borough \in BoroughEnum

\* ------------------------------------------------------------------------
\* C18: cluster ids after the flows cleanup
\* ------------------------------------------------------------------------
\* A raw id that is missing, empty or negative.
RawIdIsAbsent(v) ==
    \/ v \in {JsUndefined, JsNull, JsString(<<>>)}
    \/ (v.t = "number" /\ v.n < 0)
    \/ (v.t = "string" /\ v.s # <<>> /\ v.s[1] = "-")

\* C18: after one cleanup pass and after the second one on the same
\* records, every cluster id is null or a non-negative number, and it is
\* null whenever the raw id was missing, empty or negative.
C18_ClusterIdNullOrNonNegative ==
    pureOut.fn = "flowsCleanup" =>
        \A i \in DOMAIN pureOut.flows :
            LET cid == pureOut.flows[i].flow_cluster_id
                raw == pureIn.flows[i].flow_cluster_id
            IN  /\ cid = JsNull \/ (cid.t = "number" /\ cid.n >= 0)
                /\ RawIdIsAbsent(raw) => cid = JsNull
                /\ ~RawIdIsAbsent(raw) => cid = ToNumber(raw)

\* Both passes have run over a table with the text "-1" and the text "3".
C18_SentinelDroppedTwice ==
    /\ pureOut.fn = "flowsCleanup"
    /\ pureOut.passes = 2
    /\ Len(pureIn.flows) = 2
    /\ pureIn.flows[1].flow_cluster_id = JsString(<<"-", "1">>)
    /\ pureOut.flows[1].flow_cluster_id = JsNull
    /\ pureIn.flows[2].flow_cluster_id = JsString(<<"3">>)
    /\ pureOut.flows[2].flow_cluster_id = JsNumber(3)

\* ------------------------------------------------------------------------
\* C19: the dense series of renderClusterDetail
\* ------------------------------------------------------------------------
\* The sum of the trip counts of the rows of the member clusters at hour h.
RECURSIVE TripsOfAreaAt(_, _, _)
TripsOfAreaAt(ts, members, h) ==
    IF ts = <<>> THEN 0
    ELSE (IF Head(ts).cluster_id \in members /\ Head(ts).time_bin = h
          THEN Head(ts).trip_count ELSE 0) + TripsOfAreaAt(Tail(ts), members, h)

\* C19: the series of an area has exactly 24 points, time_bin 0..23 in
\* strictly increasing order, each with the sum of the trip counts of the rows
\* of the member clusters at that hour, 0 without such a row.
C19_DenseSeries ==
    pureOut.fn = "renderClusterDetail" =>
        /\ Len(pureOut.series) = 24
        /\ \A k \in 1..Len(pureOut.series) :
               /\ pureOut.series[k].time_bin = k - 1
               /\ k > 1 => pureOut.series[k - 1].time_bin < pureOut.series[k].time_bin
               /\ pureOut.series[k].trip_count =
                      TripsOfAreaAt(pureIn.tsData, Range(pureOut.areaEntry.clusters), k - 1)

\* An area of two clusters with rows at the hours 8 and 17 only: 22 points
\* with 0 and those two.
C19_SparseArea ==
    /\ pureOut.fn = "renderClusterDetail"
    /\ Range(pureOut.areaEntry.clusters) = {1, 2}
    /\ pureOut.series[9].trip_count = 10
    /\ pureOut.series[18].trip_count = 6
    /\ Cardinality({k \in 1..Len(pureOut.series) : pureOut.series[k].trip_count = 0}) = 22

\* ------------------------------------------------------------------------
\* C20: areas of clusters whose labels differ in the trailing suffix
\* ------------------------------------------------------------------------
\* The areas whose member set holds the cluster.
AreasOfCluster(cid) ==
    {i \in 1..Len(pureOut.clusterTopList) : cid \in Range(pureOut.clusterTopList[i].clusters)}

HasRows(cid) == \E i \in 1..Len(pureIn.tsData) : pureIn.tsData[i].cluster_id = cid

\* The labels of 1 and 2 are the same text followed by " (...)" suffixes.
SuffixOnlyDifference ==
    /\ pureIn.semanticsTime[1] = <<"J", "F", "K", " ", "(", "A", "M", " ", "p", "e", "a", "k", ")">>
    /\ pureIn.semanticsTime[2] \in {<<"J", "F", "K", " ", "(", "P", "M", " ", "p", "e", "a", "k", ")">>, <<"J", "F", "K", " ", " ", "(", "L", "a", "t", "e", " ", "(", "x", ")", " ">>}

\* C20: clusters 1 and 2 labelled "JFK (AM peak)" and "JFK (PM peak)" have
\* the area key "JFK", and the one area with that key holds every one of
\* the two that has rows.
C20_SameAreaKey ==
    (pureOut.fn # "none" /\ SuffixOnlyDifference) =>
        /\ getAreaKeyForCluster(pureIn.semanticsTime, 1) = <<"J", "F", "K">>
        /\ getAreaKeyForCluster(pureIn.semanticsTime, 2) = <<"J", "F", "K">>
        /\ \A c \in {1, 2} :
               HasRows(c) =>
                   /\ Cardinality(AreasOfCluster(c)) = 1
                   /\ \A i \in AreasOfCluster(c) : pureOut.clusterTopList[i].areaKey = <<"J", "F", "K">>
        /\ (HasRows(1) /\ HasRows(2)) => AreasOfCluster(1) = AreasOfCluster(2)

\* Both clusters have rows and the table has the single area "JFK".
C20_BothInOneArea ==
    /\ pureOut.fn = "buildClusterStructures"
    /\ pureIn.semanticsTime[1] = <<"J", "F", "K", " ", "(", "A", "M", " ", "p", "e", "a", "k", ")">>
    /\ pureIn.semanticsTime[2] = <<"J", "F", "K", " ", "(", "P", "M", " ", "p", "e", "a", "k", ")">>
    /\ Len(pureOut.clusterTopList) = 1
    /\ pureOut.clusterTopList[1].areaKey = <<"J", "F", "K">>
    /\ Range(pureOut.clusterTopList[1].clusters) = {1, 2}

\* ------------------------------------------------------------------------
\* C21: the overview of a key without a semantics entry
\* ------------------------------------------------------------------------
OverviewOfUnknownKey ==
    /\ lastEvent.name = "goClick"
    /\ CorridorClusterIds(ui.lastCorridorOverviewKey) = {}

\* C21: the overview of a key that matches no semantics entry raises no
\* exception, draws no edge and reports in the summary that no clusters were
\* found.
C21_NoClustersFoundState ==
    OverviewOfUnknownKey =>
        /\ ~ui.jsError
        /\ ui.odEdges = NoEdges
        /\ ui.odSummary = "noClusters"

\* ------------------------------------------------------------------------
\* C22: selections without matching flows
\* ------------------------------------------------------------------------
\* An overview of a corridor of the semantics at an hour without rows of it.
OverviewWithoutTrips ==
    /\ lastEvent.name = "goClick"
    /\ CorridorClusterIds(ui.lastCorridorOverviewKey) # {}
    /\ CorridorRows(ui.lastCorridorOverviewKey, ui.hour) = <<>>

\* A zone rendered with no partner to display.
ZoneWithoutPartners ==
    /\ ui.selectedPrimary # NoZone
    /\ ui.odEdges = ZoneEdges(ui.selectedPrimary, <<>>)

\* C22: a corridor overview at an hour without trips and a selected zone
\* without a displayed partner both show the "no trips" message.
C22_NoTripsMessage ==
    (OverviewWithoutTrips \/ ZoneWithoutPartners) => ui.odSummary = "noTrips"

\* ------------------------------------------------------------------------
\* C23: failures of the data load
\* ------------------------------------------------------------------------
RequiredDatasets == {"zones", "flows", "st"}

RequiredFailed == \E d \in RequiredDatasets : ~pureIn.fetched[d]

\* C23: with a required dataset missing the boot ends in a visible error
\* state without any view; with the required datasets loaded, the views can
\* be initialised whatever happened to the optional ones.
C23_BootErrorState ==
    pureOut.fn = "boot" =>
        /\ RequiredFailed => (pureOut.errorShown /\ ~pureOut.viewsInitialised)
        /\ ~RequiredFailed => (pureOut.viewsInitialised \/ ENABLED InitialiseViews)

\* ------------------------------------------------------------------------
\* C24: applyBoroughFilter twice
\* ------------------------------------------------------------------------
\* C24: the second call of applyBoroughFilter with the state unchanged
\* leaves every attribute of every hotspot zone, OD polygon and OD node as
\* the first call has set it.
C24_RepaintIdempotent ==
    (pureOut.fn = "applyBoroughFilter" /\ pureOut.passes = 2) =>
        \A z \in Zones :
            /\ pureOut.dom.hot[z] = pureOut.first.hot[z]
            /\ pureOut.dom.odPoly[z] = pureOut.first.odPoly[z]
            /\ pureOut.dom.odNode[z] = pureOut.first.odNode[z]

\* Two calls with the Manhattan filter and no primary: the Queens node is
\* dimmed to 0.2 and stays there.
C24_DimmedTwice ==
    /\ pureOut.fn = "applyBoroughFilter"
    /\ pureOut.passes = 2
    /\ pureIn.st.boroFilter = "Manhattan"
    /\ pureIn.st.selectedPrimary = NoZone
    /\ pureIn.dom.odNode[2].opacity = "1"
    /\ pureOut.first.odNode[2].opacity = "0.2"
    /\ pureOut.dom.odNode[2].opacity = "0.2"
    /\ pureOut.dom.hot[2].stroke = "rgba(148,163,184,.6)"

\* ------------------------------------------------------------------------
\* C25: the flag during the auto-zoom animations
\* ------------------------------------------------------------------------
\* C25: while a zoom transition of zoomToBorough, adjustOdZoomToFlows or the
\* corridor overview is scheduled or running on one of the two maps,
\* isAutoZooming is true.
C25_FlagSetWhileAnimating ==
    (ui.hotTransition # "none" \/ ui.odTransition # "none") => ui.isAutoZooming

\* ------------------------------------------------------------------------
\* C26: the time-cluster highlight on the hotspot map
\* ------------------------------------------------------------------------
\* C26: with the cluster tab active and a time cluster active, every
\* hotspot zone has the stroke of the time-cluster highlight after every
\* handler, whatever the selection, the hover and the borough filter are.
C26_ClusterHighlightWins ==
    (ui.clusterTimeViewActive /\ ui.activeTimeClusterId # NoTimeCluster) =>
        ui.hotStroke = highlightZonesForTimeCluster(ui, ui.activeTimeClusterId).hotStroke

\* ------------------------------------------------------------------------
\* C27: the display cap
\* ------------------------------------------------------------------------
\* C27: without a secondary, more partners than the cap are cut to exactly
\* cap partners and no dropped partner has a larger total than a kept one;
\* at most cap partners are all kept; with a secondary only that partner is
\* kept, whatever the cap.
C27_TopCapPartners ==
    pureOut.fn = "shownPairs" =>
        LET all == Range(pureIn.pairsAll)
            kept == Range(pureOut.shownPairs)
            cap == pureIn.capForPrimary
        IN  /\ kept \subseteq all
            /\ Cardinality(kept) = Len(pureOut.shownPairs)
            /\ (pureIn.selectedSecondary = NoZone /\ Cardinality(all) > cap) =>
                   /\ Cardinality(kept) = cap
                   /\ \A k \in kept, d \in all \ kept : d.total <= k.total
            /\ (pureIn.selectedSecondary = NoZone /\ Cardinality(all) <= cap) => kept = all
            /\ pureIn.selectedSecondary # NoZone =>
                   kept = {e \in all : e.otherId = pureIn.selectedSecondary}

\* 22 partners with totals that neither rise nor fall, cap 20: the two
\* dropped partners have the smallest total.
C27_TwoDropped ==
    /\ pureOut.fn = "shownPairs"
    /\ pureIn.selectedSecondary = NoZone
    /\ pureIn.capForPrimary = 20
    /\ Len(pureIn.pairsAll) = 22
    /\ Len(pureOut.shownPairs) = 20
    /\ \E e \in Range(pureIn.pairsAll) \ Range(pureOut.shownPairs) : e.total = 1
    /\ \E e \in Range(pureOut.shownPairs) : e.total = 5

\* ------------------------------------------------------------------------
\* C28: one auto-zoom per newly selected primary
\* ------------------------------------------------------------------------
\* The step renders the primary for the first time since the last reset.
FirstRenderOfPrimary ==
    /\ ui'.selectedPrimary # NoZone
    /\ ui'.selectedPrimary \in ui'.autoZoomedPrimaries \ ui.autoZoomedPrimaries

\* The step renders a primary that has been rendered since the last reset.
LaterRenderOfPrimary ==
    /\ ui'.selectedPrimary # NoZone
    /\ ui'.selectedPrimary = ui.selectedPrimary
    /\ ui.selectedPrimary \in ui.autoZoomedPrimaries
    /\ ui'.selectedPrimary \in ui'.autoZoomedPrimaries
    /\ lastEvent'.name \notin {"frameTick", "transitionEnd", "zoomGesture"}
    /\ calls' # <<>>
    /\ calls'[1] # "clearSelectionAndReset"

\* C28: the first render of a primary since the last reset starts an
\* auto-zoom on the OD map, and a later render of it starts none.
C28_AutoZoomOncePerPrimary ==
    [][/\ FirstRenderOfPrimary => (ui'.odTransition = "pending" /\ ui'.isAutoZooming)
       /\ (LaterRenderOfPrimary /\ ui.odTransition # "pending") => ui'.odTransition # "pending"]_vars

\* ------------------------------------------------------------------------
\* C29: the corridor state after renderODForPrimary
\* ------------------------------------------------------------------------
\* The last handler has rendered the primary.
RenderedPrimary ==
    /\ ui.selectedPrimary \in Zones
    /\ calls # <<>>
    /\ calls[Len(calls)] = "renderODForPrimary"

\* The corridor keys of the partners of the primary at the hour: the
\* canonical keys of the labels of the dominant clusters that have a
\* semantics entry.
CorridorKeysNow ==
    LET pairsAll == PairsAll(Flows, ui.selectedPrimary, ui.hour)
    IN  {canonicalCorridorKeyFromLabel(readableClusterLabel(pairsAll[i].corridorClusterId)) :
            i \in {k \in 1..Len(pairsAll) : pairsAll[k].corridorClusterId \in SemanticsIds}}

\* C29: after renderODForPrimary for a zone of the registry, corridorMode
\* is on exactly when the zone has a corridor at the hour, and
\* activeCorridorId is null or the key of one of the available corridors.
C29_ModeIffCorridors ==
    RenderedPrimary =>
        /\ {ui.availableCorridors[i].key : i \in 1..Len(ui.availableCorridors)} = CorridorKeysNow
        /\ ui.corridorMode <=> (CorridorKeysNow # {})
        /\ ui.activeCorridorId = NULL \/ ui.activeCorridorId \in CorridorKeysNow

\* The toggle button has switched corridorMode off and the render has
\* switched it on again.
C29_ToggleOverridden ==
    /\ RenderedPrimary
    /\ lastEvent.name = "corridorBtnClick"
    /\ ui.availableCorridors # <<>>
    /\ ui.corridorMode

\* ------------------------------------------------------------------------
\* C30: two clicks on empty OD-map space
\* ------------------------------------------------------------------------
NoSelection ==
    /\ ui.selectedPrimary = NoZone
    /\ ui.selectedSecondary = NoZone
    /\ ~ui.corridorMode
    /\ ui.activeCorridorId = NULL
    /\ ui.lastCorridorOverviewKey = NULL

\* C30: a click on empty OD-map space that follows another one, with no
\* handler in between, ends without primary, secondary, corridor mode,
\* active corridor key and remembered overview key.
C30_TwoEmptyClicksReset ==
    [][(lastEvent.name = "odEmptyClick" /\ OdEmptyClick) => NoSelection']_vars

\* An empty click that found no primary selected, as the first of two
\* clicks leaves the view, has reset everything.
C30_ResetFromOverview ==
    /\ lastEvent = [name |-> "odEmptyClick", branch |-> "reset", primaryBefore |-> NoZone]
    /\ NoSelection
    /\ ui.odEdges = NoEdges
    /\ ui.odSummary = "noZone"

====
